---- MODULE Spec2Model ----
(***************************************************************************)
(* Name That Thing: the image pipeline (level generator, retry wrapper,    *)
(* validator, regeneration) and the load path of the persistence layer.    *)
(*                                                                         *)
(* Qualities are held in hundredths (0.9 is 90): every comparison the code *)
(* makes on a quality (>= , > 0.6, Math.max(0.7, q - 0.1)) has the same    *)
(* outcome on the hundredths as on the IEEE doubles for the inputs drawn.  *)
(***************************************************************************)
EXTENDS Integers, Sequences, FiniteSets, TLC

VARIABLES
    \* ---- one call of ImageProcessingService.createPixelationLevels
    pc,            \* position of the call: idle, attempt, cleanup, wait, exhausted, returned, thrown
    reqQuality,    \* the quality the caller passed (retryCount 0)
    quality,       \* the quality parameter of the current activation
    pixelSizes,    \* the block-size list the caller passed
    retryCount,    \* the retryCount parameter of the current activation
    result,        \* the level set returned, or NoLevels
    events,        \* what the call has done so far, in order
    internal,      \* what the last run of createPixelationLevelsInternal gave back
    \* ---- one call of ImageProcessingService.regeneratePixelationLevels
    regen,         \* inputs and outcome of the call, or NoCall
    \* ---- persistence (IndexedDB) and the categories store
    dbMeta,        \* ids of the records of object store 'images'
    dbBlobs,       \* object store 'blobs': image id -> level -> blob, Null when no record
    db0,           \* the blobs as they were persisted before the first load
    dbAtLoad,      \* both object stores as they were when loadCategories was entered
    images,        \* the store's images.value, as a set of records
    lpc,           \* position of loadCategories / debugRegenerateImages
    lmode,         \* which of the two is running
    tasks,         \* the per-record tasks of DatabaseService.getImages (Promise.all)
    loaded,        \* what getImages resolved with: image id -> levels
    queue,         \* the records the sweep has not looked at yet
    cur,           \* the record the sweep is regenerating or saving
    validated,     \* validatedImages of loadCategories
    saves,         \* the saveImage calls in flight
    regenLog,      \* every source blob a regeneration of the load path decoded
    nextGen,       \* number of the next generator run of the load path
    loads,         \* loads started so far
    writeFaults,   \* failed IndexedDB writes so far
    \* ---- one call of a function under test
    call,          \* the function, its arguments and what it gave back, or NoCall
    \* ---- one multi-file run: uploadImages, processImages or processBatch
    files,         \* the files submitted, in order
    pipes,         \* file index -> the processImage call for that file
    up,            \* the orchestrator: which one, where it is, its lists
    isUploading,   \* the composable's isUploading ref
    uploadErrors,  \* the composable's uploadErrors ref (file indexes)
    cbLog,         \* the callbacks invoked so far, in order
    \* ---- the game store and the GamePlay view
    game,          \* the refs of the game store
    play           \* the view: where the focus is, the key presses so far

retryVars == <<pc, reqQuality, quality, pixelSizes, retryCount, result, events, internal>>
regenVars == <<regen>>
callVars == <<call>>
uploadVars == <<files, pipes, up, isUploading, uploadErrors, cbLog>>
playVars == <<game, play>>
loadVars == <<dbMeta, dbBlobs, db0, dbAtLoad, images, lpc, lmode, tasks, loaded, queue, cur, validated,
              saves, regenLog, nextGen, loads, writeFaults>>
vars == <<pc, reqQuality, quality, pixelSizes, retryCount, result, events, internal, regen,
          dbMeta, dbBlobs, db0, dbAtLoad, images, lpc, lmode, tasks, loaded, queue, cur, validated,
          saves, regenLog, nextGen, loads, writeFaults, call,
          files, pipes, up, isUploading, uploadErrors, cbLog, game, play>>

(***************************************************************************)
(* Bounds of the model                                                     *)
(***************************************************************************)
\* longest block-size list drawn as an input besides the default list
MaxSizes == 4
\* most generator runs a regeneration script makes fail
MaxFailingRuns == 7
\* persisted image records
NumImages == 2
\* most blob records that are missing or empty before the first load
MaxDamaged == 1
\* most loads (loadCategories or debugRegenerateImages) started in one run
MaxLoads == 1
\* most IndexedDB writes that fail in one run
MaxWriteFaults == 1
\* files in one multi-file run
MaxFiles == 2
\* callback invocations that throw during one run
MaxCallbackThrows == 2
\* native image sizes and target widths given to resizeImage
MaxNativeWidth == 8
MaxNativeHeight == 3
MaxTargetWidth == 4
\* size of the canvases whose pixels are modelled, and largest block size
MaxCanvasWidth == 3
MaxCanvasHeight == 2
MaxBlockSize == 3
\* longest block-size list given to the generator working on pixels
MaxListLen == 3
\* longest byte sequence converted to base64 and back
MaxBytes == 4
\* images of a game, and key presses counted in one game
MaxGameImages == 2
MaxPresses == 8
\* calls of uploadImages made on one useImageUpload instance
MaxUploadCalls == 4
\* categories that exist, persisted or in a backup file
NumCategories == 2

(***************************************************************************)
(* Program constants                                                       *)
(***************************************************************************)
DEFAULT_PIXELATION_LEVELS == <<64, 32, 16, 0>>
DEFAULT_QUALITY == 90
maxRetries == 5
RetryQualityFloor == 70
RetryQualityStep == 10
FinalQuality == 60
BaseDelay == 1000
RegenerateQuality == 90
\* isValidImageSize: 10 * 1024 * 1024 bytes
MaxFileBytes == 10485760

\* the four keys every record needs: level1 .. level4
requiredLevels == 1..4

(***************************************************************************)
(* Blobs and level sets                                                    *)
(***************************************************************************)
\* null / undefined: both are falsy and both fail "!blob"
Null == [null |-> TRUE]

\* A blob: its byte size, the block size it was encoded with (0: unpixelated
\* pass), whether no pixelation lies anywhere in its derivation, and the
\* generator run that made it (0: it was there before the run began).
Blob(size, px, clear, gen) == [size |-> size, px |-> px, clear |-> clear, gen |-> gen]

EncodedSize == 7

\* levels[`level${k}`]: undefined when the key was never set
Level(levels, k) == IF k \in DOMAIN levels THEN levels[k] ELSE Null

NoLevels == <<>>

Max(a, b) == IF a >= b THEN a ELSE b

(***************************************************************************)
(* Validator                                                               *)
(***************************************************************************)
\* the mutant: level4 is not looked at
validatePixelationLevels_FirstThree(levels) ==
    \A level \in 1..3 :
        ~ (Level(levels, level) = Null \/ Level(levels, level).size = 0)

validatePixelationLevels(levels) ==
    \A level \in requiredLevels :
        ~ (Level(levels, level) = Null \/ Level(levels, level).size = 0)

(***************************************************************************)
(* Level generator                                                         *)
(***************************************************************************)
\* What the canvas and the encoder do for one level: a non-empty blob, an
\* empty blob, no blob, no callback within 15 s, or no 2d context.
EncoderOutcomes == {"blob", "empty", "null", "timeout", "noctx"}

\* the blob toBlob / createPixelatedImage hands back when the encoder works
EncodeLevel(surface, pixelSize, gen) ==
    Blob(EncodedSize, pixelSize, surface.clear /\ pixelSize = 0, gen)

\* the final check of the generator: only the keys that were set are seen
InvalidLevels(levels) ==
    {k \in DOMAIN levels : levels[k] = Null \/ levels[k].size = 0}

RECURSIVE LevelLoop(_, _, _, _, _, _)
LevelLoop(surface, sizes, enc, gen, i, levels) ==
    IF i > Len(sizes)
    THEN IF InvalidLevels(levels) # {}
         THEN [threw |-> TRUE, levels |-> NoLevels, failed |-> InvalidLevels(levels)]
         ELSE [threw |-> FALSE, levels |-> levels, failed |-> {}]
    ELSE IF enc[i] # "blob"
         THEN [threw |-> TRUE, levels |-> NoLevels, failed |-> {i}]
         ELSE LevelLoop(surface, sizes, enc, gen, i + 1,
                        (i :> EncodeLevel(surface, sizes[i], gen)) @@ levels)

\* createPixelationLevelsInternal(canvas, quality, pixelSizes); enc[i] is what
\* the encoder does for list index i
createPixelationLevelsInternal(surface, sizes, enc, gen) ==
    LevelLoop(surface, sizes, enc, gen, 1, NoLevels)

\* the older service file: the generator without wrapper, fixed list
PIXELATION_LEVELS == <<32, 16, 8, 0>>

createPixelationLevelsOld(surface, enc, gen) ==
    LevelLoop(surface, PIXELATION_LEVELS, enc, gen, 1, NoLevels)

\* What the encoder does during one run of the generator: every level works
\* (f = 0), or the first failure is at list index f with outcome kind (later
\* indexes are never run).
NoFault == [f |-> 0, kind |-> "blob"]

EncoderFaults(n) ==
    {NoFault} \cup [f : 1..n, kind : EncoderOutcomes \ {"blob"}]

EncoderRun(n, e) == [i \in 1..n |-> IF i = e.f THEN e.kind ELSE "blob"]

EncoderRuns(n) == {EncoderRun(n, e) : e \in EncoderFaults(n)}

(***************************************************************************)
(* Retry wrapper: the pieces of one activation of createPixelationLevels   *)
(***************************************************************************)
\* try { result = Internal(...); validate } : the attempt counts as failed
\* when the generator throws or the validator rejects what it returned
\* variant: the result of the generator is returned without the validator
TryAttempt_Unvalidated(surface, sizes, enc, gen) ==
    LET r == createPixelationLevelsInternal(surface, sizes, enc, gen)
    IN  IF r.threw THEN [ok |-> FALSE, levels |-> NoLevels, internal |-> r]
        ELSE [ok |-> TRUE, levels |-> r.levels, internal |-> r]

TryAttempt(surface, sizes, enc, gen) ==
    LET r == createPixelationLevelsInternal(surface, sizes, enc, gen)
    IN  IF r.threw THEN [ok |-> FALSE, levels |-> NoLevels, internal |-> r]
        ELSE IF ~ validatePixelationLevels(r.levels)
             THEN [ok |-> FALSE, levels |-> NoLevels, internal |-> r]
        ELSE [ok |-> TRUE, levels |-> r.levels, internal |-> r]

\* variant: the wrapper gives up two retries early
ShouldRetry_Early(rc) == rc < maxRetries - 2

\* variant: one retry too many
ShouldRetry_Inclusive(rc) == rc <= maxRetries

ShouldRetry(rc) == rc < maxRetries

\* variant: the wait shrinks with the retry number
RetryDelay_Shrinking(rc) == (BaseDelay * 6) - (rc * 1000)

RetryDelay(rc) == BaseDelay + (rc * 1000)

\* variant: the reduction starts one retry earlier
RetryQuality_Early(rc, q) ==
    IF rc >= 1 THEN Max(RetryQualityFloor, q - RetryQualityStep) ELSE q

RetryQuality(rc, q) == IF rc >= 2 THEN Max(RetryQualityFloor, q - RetryQualityStep) ELSE q

\* variant: the last resort is skipped at the retry floor
FinalAttemptAllowed_AboveFloor(q) == q > RetryQualityFloor

FinalAttemptAllowed(q) == q > FinalQuality

\* return await Internal(canvas, 0.6): default list, result not validated
FinalAttempt(surface, enc, gen) ==
    LET r == createPixelationLevelsInternal(surface, DEFAULT_PIXELATION_LEVELS, enc, gen)
    IN  IF r.threw THEN [ok |-> FALSE, levels |-> NoLevels, internal |-> r]
        ELSE [ok |-> TRUE, levels |-> r.levels, internal |-> r]

(***************************************************************************)
(* Inputs                                                                  *)
(***************************************************************************)
\* compressionQuality: 0.1 .. 1.0
Qualities == {10, 50, 60, 65, 70, 75, 80, 90, 100}

SizeValues == {0, 16}

PixelSizeLists ==
    {DEFAULT_PIXELATION_LEVELS} \cup
    UNION {[1..n -> SizeValues] : n \in 0..MaxSizes}

\* the working surface of an upload: never pixelated
UploadSurface == [clear |-> TRUE]

(***************************************************************************)
(* Events of a call                                                        *)
(***************************************************************************)
AttemptEvent(q, sizes, final, ok) ==
    [ev |-> "attempt", quality |-> q, sizes |-> sizes, final |-> final, ok |-> ok, delay |-> 0]
CleanupEvent ==
    [ev |-> "cleanup", quality |-> 0, sizes |-> <<>>, final |-> FALSE, ok |-> FALSE, delay |-> 0]
WaitEvent(d) ==
    [ev |-> "wait", quality |-> 0, sizes |-> <<>>, final |-> FALSE, ok |-> FALSE, delay |-> d]

Attempts(es) == SelectSeq(es, LAMBDA e : e.ev = "attempt")
Waits(es) == SelectSeq(es, LAMBDA e : e.ev = "wait")

(***************************************************************************)
(* Persistence and the categories store: state                             *)
(***************************************************************************)
Images == 1..NumImages

NoTask == [pc |-> "none", levels |-> NoLevels, original |-> Null]
NoRecord == [id |-> 0, pixelationLevels |-> NoLevels]

\* loadCategories has not been entered
NoSnapshot == [meta |-> {}, blobs |-> <<>>]

\* nothing persisted, nothing loading
LoadIdle ==
    /\ dbMeta = {}
    /\ dbBlobs = <<>>
    /\ db0 = <<>>
    /\ dbAtLoad = NoSnapshot
    /\ images = {}
    /\ lpc = "idle"
    /\ lmode = "load"
    /\ tasks = <<>>
    /\ loaded = <<>>
    /\ queue = <<>>
    /\ cur = NoRecord
    /\ validated = {}
    /\ saves = {}
    /\ regenLog = {}
    /\ nextGen = 1
    /\ loads = 0
    /\ writeFaults = 0

\* no multi-file run was started
NoUpload == [name |-> "none", pc |-> "idle", i |-> 0, variant |-> "none",
             successful |-> <<>>, failed |-> <<>>, results |-> <<>>]

UploadIdle ==
    /\ files = <<>>
    /\ pipes = <<>>
    /\ up = NoUpload
    /\ isUploading = FALSE
    /\ uploadErrors = <<>>
    /\ cbLog = <<>>

\* the game store as defineStore builds it (no images are modelled beyond
\* their number), and the view before any key was pressed
NewGame == [gameMode |-> "setup", total |-> 0, currentImageIndex |-> 0,
            currentPixelationLevel |-> 1]

NoPress == [key |-> "none"]

NoPlay == [focusInside |-> FALSE, presses |-> 0, onlyForward |-> TRUE, last |-> NoPress]

PlayIdle ==
    /\ game = NewGame
    /\ play = NoPlay

(***************************************************************************)
(* createPixelationLevels, step by step                                    *)
(***************************************************************************)
NoCall == [called |-> FALSE]
NoRun == [ran |-> FALSE]

RetryInit ==
    /\ pc = "idle"
    /\ reqQuality = 0
    /\ quality = 0
    /\ pixelSizes = <<>>
    /\ retryCount = 0
    /\ result = NoLevels
    /\ events = <<>>
    /\ internal = NoRun

\* a caller enters createPixelationLevels(canvas, quality, pixelSizes)
CallCreatePixelationLevels ==
    /\ pc = "idle"
    /\ \E q \in Qualities, sizes \in PixelSizeLists :
        /\ reqQuality' = q
        /\ quality' = q
        /\ pixelSizes' = sizes
    /\ retryCount' = 0
    /\ pc' = "attempt"
    /\ UNCHANGED <<result, events, internal, regen>>
    /\ UNCHANGED <<loadVars, callVars, uploadVars, playVars>>

\* the try block: one run of the generator and the validation of its result
Attempt ==
    /\ pc = "attempt"
    /\ \E enc \in EncoderRuns(Len(pixelSizes)) :
        LET a == TryAttempt(UploadSurface, pixelSizes, enc, Len(Attempts(events)) + 1)
        IN  /\ events' = Append(events, AttemptEvent(quality, pixelSizes, FALSE, a.ok))
            /\ internal' = a.internal
            /\ IF a.ok
               THEN /\ result' = a.levels
                    /\ pc' = "returned"
               ELSE /\ result' = result
                    /\ pc' = IF ShouldRetry(retryCount) THEN "cleanup" ELSE "exhausted"
    /\ UNCHANGED <<reqQuality, quality, pixelSizes, retryCount, regen>>
    /\ UNCHANGED <<loadVars, callVars, uploadVars, playVars>>

\* await this.forceMemoryCleanup()
Cleanup ==
    /\ pc = "cleanup"
    /\ events' = Append(events, CleanupEvent)
    /\ pc' = "wait"
    /\ UNCHANGED <<reqQuality, quality, pixelSizes, retryCount, result, internal, regen>>
    /\ UNCHANGED <<loadVars, callVars, uploadVars, playVars>>

\* the backoff wait, then the recursive call with retryQuality, retryCount + 1
Backoff ==
    /\ pc = "wait"
    /\ events' = Append(events, WaitEvent(RetryDelay(retryCount)))
    /\ quality' = RetryQuality(retryCount, quality)
    /\ retryCount' = retryCount + 1
    /\ pc' = "attempt"
    /\ UNCHANGED <<reqQuality, pixelSizes, result, internal, regen>>
    /\ UNCHANGED <<loadVars, callVars, uploadVars, playVars>>

\* retries exhausted: the last resort at quality 0.6, or the terminal error
LastResort ==
    /\ pc = "exhausted"
    /\ IF FinalAttemptAllowed(quality)
       THEN \E enc \in EncoderRuns(Len(DEFAULT_PIXELATION_LEVELS)) :
            LET a == FinalAttempt(UploadSurface, enc, Len(Attempts(events)) + 1)
            IN  /\ events' = Append(events,
                        AttemptEvent(FinalQuality, DEFAULT_PIXELATION_LEVELS, TRUE, a.ok))
                /\ internal' = a.internal
                /\ IF a.ok
                   THEN /\ result' = a.levels
                        /\ pc' = "returned"
                   ELSE /\ result' = result
                        /\ pc' = "thrown"
       ELSE /\ pc' = "thrown"
            /\ UNCHANGED <<events, result, internal>>
    /\ UNCHANGED <<reqQuality, quality, pixelSizes, retryCount, regen>>
    /\ UNCHANGED <<loadVars, callVars, uploadVars, playVars>>

RetryNext ==
    \/ CallCreatePixelationLevels
    \/ Attempt
    \/ Cleanup
    \/ Backoff
    \/ LastResort

SpecRetryInit == RetryInit /\ regen = NoCall /\ LoadIdle /\ call = NoCall /\ UploadIdle /\ PlayIdle

SpecRetry == SpecRetryInit /\ [][RetryNext]_vars

\* timers fire and promise continuations run: a call that can step does step
SpecRetryFair == SpecRetryInit /\ [][RetryNext]_vars /\ WF_vars(RetryNext)

(***************************************************************************)
(* createPixelationLevels as one call: the recursion of the source.        *)
(* script[i] is what the encoder does during the i-th run of the generator *)
(* of this call; after the script the encoder works.                       *)
(***************************************************************************)
ScriptAt(script, i) == IF i \in DOMAIN script THEN script[i] ELSE NoFault

RECURSIVE createPixelationLevels(_, _, _, _, _, _)
createPixelationLevels(surface, q, sizes, rc, script, gen) ==
    LET run == rc + 1
        a == TryAttempt(surface, sizes, EncoderRun(Len(sizes), ScriptAt(script, run)), gen)
    IN  IF a.ok THEN [ok |-> TRUE, levels |-> a.levels, runs |-> run]
        ELSE IF ShouldRetry(rc)
             THEN createPixelationLevels(surface, RetryQuality(rc, q), sizes, rc + 1, script, gen)
        ELSE IF FinalAttemptAllowed(q)
             THEN LET f == FinalAttempt(surface,
                               EncoderRun(Len(DEFAULT_PIXELATION_LEVELS), ScriptAt(script, run + 1)),
                               gen)
                  IN  [ok |-> f.ok, levels |-> f.levels, runs |-> run + 1]
        ELSE [ok |-> FALSE, levels |-> NoLevels, runs |-> run]

(***************************************************************************)
(* Regeneration                                                            *)
(***************************************************************************)
\* variant: a pixelated level stands in when neither source is usable
RegenSource_FallBack(originalBlob, existingLevels) ==
    IF Level(existingLevels, 4) # Null /\ Level(existingLevels, 4).size > 0
    THEN Level(existingLevels, 4)
    ELSE IF originalBlob # Null /\ originalBlob.size > 0 THEN originalBlob
    ELSE Level(existingLevels, 3)

\* let sourceBlob = existingLevels.level4 || originalBlob : an empty Blob is
\* an object, so it is truthy and wins over originalBlob
RegenSource(originalBlob, existingLevels) ==
    IF Level(existingLevels, 4) # Null THEN Level(existingLevels, 4) ELSE originalBlob

\* if (!sourceBlob || sourceBlob.size === 0) throw
SourceUsable(sourceBlob) == ~ (sourceBlob = Null \/ sourceBlob.size = 0)

\* the canvas regeneration draws the decoded source on
SurfaceOf(sourceBlob) == [clear |-> sourceBlob.clear]

\* what the browser does during one regeneration: the image decodes or not,
\* the 2d context is there or not, and the encoder script of the generator
RegenEnvs(scripts) == [decode : {"load", "error"}, ctx : BOOLEAN, script : scripts]

\* regeneratePixelationLevels(originalBlob, existingLevels, quality = 0.9)
regeneratePixelationLevels(originalBlob, existingLevels, env, gen) ==
    LET sourceBlob == RegenSource(originalBlob, existingLevels)
    IN  IF ~ SourceUsable(sourceBlob)
        THEN [threw |-> TRUE, levels |-> NoLevels, source |-> Null, runs |-> 0]
        ELSE IF env.decode = "error" \/ ~ env.ctx
        THEN [threw |-> TRUE, levels |-> NoLevels, source |-> sourceBlob, runs |-> 0]
        ELSE LET r == createPixelationLevels(SurfaceOf(sourceBlob), RegenerateQuality,
                                             DEFAULT_PIXELATION_LEVELS, 0, env.script, gen)
             IN  [threw |-> ~ r.ok, levels |-> r.levels, source |-> sourceBlob, runs |-> r.runs]

\* the first k runs of the generator fail at list index f
FailingScript(k, f) == [i \in 1..k |-> [f |-> f, kind |-> "timeout"]]

Scripts == {FailingScript(k, f) : k \in 0..MaxFailingRuns, f \in {1, 4}}

\* during a load the generator either succeeds at once or fails every run
LoadScripts == {FailingScript(0, 1), FailingScript(MaxFailingRuns, 1)}

\* the artifact stored for level k by an upload with the default list
StoredBlob(k, size) == Blob(size, DEFAULT_PIXELATION_LEVELS[k], k = 4, 0)

BlobStates(k) == {Null, StoredBlob(k, 0), StoredBlob(k, EncodedSize)}

LevelSets == {ls \in [requiredLevels -> UNION {BlobStates(k) : k \in requiredLevels}] :
                \A k \in requiredLevels : ls[k] \in BlobStates(k)}

OriginalBlobs == BlobStates(4) \cup {StoredBlob(3, EncodedSize)}

\* a caller enters regeneratePixelationLevels and the call runs to its end
Regenerate ==
    /\ regen = NoCall
    /\ \E originalBlob \in OriginalBlobs, existingLevels \in LevelSets,
          env \in RegenEnvs(Scripts) :
        regen' = [called |-> TRUE,
                  originalBlob |-> originalBlob,
                  existingLevels |-> existingLevels,
                  out |-> regeneratePixelationLevels(originalBlob, existingLevels, env, 1)]
    /\ UNCHANGED retryVars
    /\ UNCHANGED <<loadVars, callVars, uploadVars, playVars>>

RegenNext == Regenerate

SpecRegenInit == RetryInit /\ regen = NoCall /\ LoadIdle /\ call = NoCall /\ UploadIdle /\ PlayIdle

SpecRegen == SpecRegenInit /\ [][RegenNext]_vars

(***************************************************************************)
(* DatabaseService.getImages and saveImage                                 *)
(***************************************************************************)
\* validatedBlobs and pixelationLevels: a blob record of size 0 reads as null
LoadedLevels(blobs) ==
    [k \in requiredLevels |->
        IF blobs[k] # Null /\ blobs[k].size > 0 THEN blobs[k] ELSE Null]

\* hasInvalidBlobs: some blob record is there with size 0 (a missing record
\* is not seen by the forEach)
HasInvalidBlobs(blobs) == \E k \in requiredLevels : blobs[k] # Null /\ ~ (blobs[k].size > 0)

\* "the best available source": level4 || level3 || level2 || level1
BestAvailableSource(levels) ==
    IF levels[4] # Null THEN levels[4]
    ELSE IF levels[3] # Null THEN levels[3]
    ELSE IF levels[2] # Null THEN levels[2]
    ELSE levels[1]

\* levels.levelN?.size || 0
LevelSize(levels, k) == IF Level(levels, k) = Null THEN 0 ELSE Level(levels, k).size

\* the mutant: only level4 is checked
SaveAccepts_Level4Only(levels) == LevelSize(levels, 4) > 0

\* hasAllLevels of saveImage: anything else throws before the first write
SaveAccepts(levels) == \A k \in requiredLevels : LevelSize(levels, k) > 0

Rec(id, levels) == [id |-> id, pixelationLevels |-> levels]

\* a saveImage call in flight: next = 0 is the put of the metadata record,
\* next = k the put of the blob record of level k
SaveTask(id, levels, by) == [id |-> id, levels |-> levels, next |-> 0, by |-> by]

\* the records of store 'images', in key order (store.getAll())
RECURSIVE KeyOrder(_)
KeyOrder(ids) ==
    IF ids = {} THEN <<>>
    ELSE LET m == CHOOSE x \in ids : \A y \in ids : x <= y
         IN  <<m>> \o KeyOrder(ids \ {m})

\* getImages starts one task per record of store 'images'
StartTasks == [i \in Images |-> IF i \in dbMeta THEN [NoTask EXCEPT !.pc = "read"] ELSE NoTask]

RegenEntry(id, source, by) == [image |-> id, source |-> source, by |-> by]

(***************************************************************************)
(* The load path: loadCategories, debugRegenerateImages                    *)
(***************************************************************************)
\* loadCategories(): db.init(), then getCategories() and getImages()
StartLoadCategories ==
    /\ lpc = "idle"
    /\ loads < MaxLoads
    /\ loads' = loads + 1
    /\ lmode' = "load"
    /\ lpc' = "getImages"
    /\ tasks' = StartTasks
    /\ validated' = {}
    /\ dbAtLoad' = [meta |-> dbMeta, blobs |-> dbBlobs]
    /\ UNCHANGED <<dbMeta, dbBlobs, db0, images, loaded, queue, cur, saves, regenLog,
                   nextGen, writeFaults>>
    /\ UNCHANGED <<retryVars, regen, callVars, uploadVars, playVars>>

\* debugRegenerateImages(): getImages(), the repair loop, then loadCategories()
StartDebugRegenerateImages ==
    /\ lpc = "idle"
    /\ loads < MaxLoads
    /\ loads' = loads + 1
    /\ lmode' = "debug"
    /\ lpc' = "getImages"
    /\ tasks' = StartTasks
    /\ validated' = {}
    /\ UNCHANGED <<dbMeta, dbBlobs, db0, dbAtLoad, images, loaded, queue, cur, saves, regenLog,
                   nextGen, writeFaults>>
    /\ UNCHANGED <<retryVars, regen, callVars, uploadVars, playVars>>

\* one task of getImages: getBlobsForImage, the size check, and, when a blob
\* is invalid, the call of regeneratePixelationLevels up to its first await
GetBlobs(i) ==
    /\ lpc = "getImages"
    /\ tasks[i].pc = "read"
    /\ LET blobs == dbBlobs[i]
           pixelationLevels == LoadedLevels(blobs)
           sourceBlob == BestAvailableSource(pixelationLevels)
       IN  IF HasInvalidBlobs(blobs) /\ sourceBlob # Null
                /\ SourceUsable(RegenSource(sourceBlob, pixelationLevels))
           THEN /\ tasks' = [tasks EXCEPT ![i] =
                        [pc |-> "regen", levels |-> pixelationLevels, original |-> sourceBlob]]
                /\ regenLog' = regenLog \cup
                        {RegenEntry(i, RegenSource(sourceBlob, pixelationLevels), "getImages")}
           ELSE /\ tasks' = [tasks EXCEPT ![i] =
                        [pc |-> "done", levels |-> pixelationLevels, original |-> Null]]
                /\ regenLog' = regenLog
    /\ UNCHANGED <<dbMeta, dbBlobs, db0, dbAtLoad, images, lpc, lmode, loaded, queue, cur, validated,
                   saves, nextGen, loads, writeFaults>>
    /\ UNCHANGED <<retryVars, regen, callVars, uploadVars, playVars>>

\* the regeneration of a task settles: Object.assign and the saveImage that
\* is not awaited, or the catch that only logs
TaskRegenerated(i) ==
    /\ lpc = "getImages"
    /\ tasks[i].pc = "regen"
    /\ \E env \in RegenEnvs(LoadScripts) :
        LET out == regeneratePixelationLevels(tasks[i].original, tasks[i].levels, env, nextGen)
        IN  IF out.threw
            THEN /\ tasks' = [tasks EXCEPT ![i].pc = "done"]
                 /\ UNCHANGED <<saves, nextGen>>
            ELSE /\ tasks' = [tasks EXCEPT ![i] =
                        [pc |-> "done",
                         levels |-> [k \in requiredLevels |-> Level(out.levels, k)],
                         original |-> Null]]
                 /\ saves' = IF SaveAccepts(out.levels)
                             THEN saves \cup {SaveTask(i, out.levels, "getImages")}
                             ELSE saves
                 /\ nextGen' = nextGen + 1
    /\ UNCHANGED <<dbMeta, dbBlobs, db0, dbAtLoad, images, lpc, lmode, loaded, queue, cur, validated,
                   regenLog, loads, writeFaults>>
    /\ UNCHANGED <<retryVars, regen, callVars, uploadVars, playVars>>

\* Promise.all settles and getImages resolves
ResolveGetImages ==
    /\ lpc = "getImages"
    /\ \A i \in Images : tasks[i].pc \in {"none", "done"}
    /\ loaded' = [i \in {j \in Images : tasks[j].pc = "done"} |-> tasks[i].levels]
    /\ queue' = KeyOrder({j \in Images : tasks[j].pc = "done"})
    /\ tasks' = [i \in Images |-> NoTask]
    /\ lpc' = "sweep"
    /\ UNCHANGED <<dbMeta, dbBlobs, db0, dbAtLoad, images, lmode, cur, validated, saves, regenLog,
                   nextGen, loads, writeFaults>>
    /\ UNCHANGED <<retryVars, regen, callVars, uploadVars, playVars>>

\* the record is left out (loadCategories) or only logged (debug), next record
SkipRecord ==
    /\ queue' = Tail(queue)
    /\ lpc' = "sweep"
    /\ cur' = NoRecord
    /\ validated' = validated

\* the outer catch of debugRegenerateImages: the loop stops, nothing reloads
AbortDebug ==
    /\ queue' = <<>>
    /\ lpc' = "idle"
    /\ cur' = NoRecord
    /\ validated' = validated

\* a regeneration or a save of the sweep failed
SweepFailed == IF lmode = "load" THEN SkipRecord ELSE AbortDebug

\* the record was validated or repaired: it joins validatedImages
KeepRecord(r) ==
    /\ queue' = Tail(queue)
    /\ lpc' = "sweep"
    /\ cur' = NoRecord
    /\ validated' = IF lmode = "load" THEN validated \cup {r} ELSE validated

\* the mutant: a record passes when its level4 is there and non-empty
IsValid_Level4Only(levels) == Level(levels, 4) # Null /\ Level(levels, 4).size > 0

\* isValid and regenerationValid of the sweep
IsValid(levels) == validatePixelationLevels(levels)

\* the loop body up to the first await: validate, look for level4, and
\* enter regeneratePixelationLevels(level4, levels)
SweepImage ==
    /\ lpc = "sweep"
    /\ queue # <<>>
    /\ LET id == Head(queue)
           levels == loaded[id]
       IN  IF IsValid(levels)
           THEN KeepRecord(Rec(id, levels)) /\ regenLog' = regenLog
           ELSE IF levels[4] # Null /\ levels[4].size > 0
           THEN IF SourceUsable(RegenSource(levels[4], levels))
                THEN /\ lpc' = "regen"
                     /\ cur' = Rec(id, levels)
                     /\ regenLog' = regenLog \cup
                            {RegenEntry(id, RegenSource(levels[4], levels), lmode)}
                     /\ UNCHANGED <<queue, validated>>
                ELSE SweepFailed /\ regenLog' = regenLog
           ELSE SkipRecord /\ regenLog' = regenLog
    /\ UNCHANGED <<dbMeta, dbBlobs, db0, dbAtLoad, images, lmode, tasks, loaded, saves, nextGen,
                   loads, writeFaults>>
    /\ UNCHANGED <<retryVars, regen, callVars, uploadVars, playVars>>

\* the regeneration of the sweep settles; on success saveImage is entered
SweepRegenerated ==
    /\ lpc = "regen"
    /\ \E env \in RegenEnvs(LoadScripts) :
        LET out == regeneratePixelationLevels(cur.pixelationLevels[4], cur.pixelationLevels,
                                              env, nextGen)
        IN  IF out.threw
            THEN SweepFailed /\ UNCHANGED <<saves, nextGen>>
            ELSE /\ nextGen' = nextGen + 1
                 /\ IF lmode = "load" /\ ~ IsValid(out.levels)
                    THEN SkipRecord /\ saves' = saves
                    ELSE IF ~ SaveAccepts(out.levels)
                    THEN SweepFailed /\ saves' = saves
                    ELSE /\ saves' = saves \cup {SaveTask(cur.id, out.levels, "sweep")}
                         /\ lpc' = "save"
                         /\ cur' = Rec(cur.id, out.levels)
                         /\ UNCHANGED <<queue, validated>>
    /\ UNCHANGED <<dbMeta, dbBlobs, db0, dbAtLoad, images, lmode, tasks, loaded, regenLog, loads,
                   writeFaults>>
    /\ UNCHANGED <<retryVars, regen, callVars, uploadVars, playVars>>

\* one IndexedDB put of a saveImage call succeeds: the metadata record, then
\* the blob records in key order, a null entry being skipped
PutWritten(s) ==
    IF s.next = 0
    THEN /\ dbMeta' = dbMeta \cup {s.id}
         /\ dbBlobs' = dbBlobs
    ELSE IF Level(s.levels, s.next) = Null
    THEN UNCHANGED <<dbMeta, dbBlobs>>
    ELSE /\ dbMeta' = dbMeta
         /\ dbBlobs' = [dbBlobs EXCEPT ![s.id][s.next] = s.levels[s.next]]

Advanced(s) == [s EXCEPT !.next = s.next + 1]

\* a put of the saveImage that getImages did not await
BackgroundPut ==
    /\ \E s \in saves :
        /\ s.by = "getImages"
        /\ \E ok \in BOOLEAN :
            IF ok
            THEN /\ PutWritten(s)
                 /\ saves' = IF s.next = 4 THEN saves \ {s}
                             ELSE (saves \ {s}) \cup {Advanced(s)}
                 /\ writeFaults' = writeFaults
            ELSE /\ writeFaults < MaxWriteFaults
                 /\ writeFaults' = writeFaults + 1
                 /\ saves' = saves \ {s}
                 /\ UNCHANGED <<dbMeta, dbBlobs>>
    /\ UNCHANGED <<db0, dbAtLoad, images, lpc, lmode, tasks, loaded, queue, cur, validated, regenLog,
                   nextGen, loads>>
    /\ UNCHANGED <<retryVars, regen, callVars, uploadVars, playVars>>

\* a put of the saveImage the sweep awaits; after the last one the record is
\* pushed, after a failed one it is not
AwaitedPut ==
    /\ lpc = "save"
    /\ \E s \in saves :
        /\ s.by = "sweep"
        /\ \E ok \in BOOLEAN :
            IF ok
            THEN /\ PutWritten(s)
                 /\ writeFaults' = writeFaults
                 /\ IF s.next = 4
                    THEN /\ saves' = saves \ {s}
                         /\ KeepRecord(cur)
                    ELSE /\ saves' = (saves \ {s}) \cup {Advanced(s)}
                         /\ UNCHANGED <<lpc, queue, cur, validated>>
            ELSE /\ writeFaults < MaxWriteFaults
                 /\ writeFaults' = writeFaults + 1
                 /\ saves' = saves \ {s}
                 /\ SweepFailed
                 /\ UNCHANGED <<dbMeta, dbBlobs>>
    /\ UNCHANGED <<db0, dbAtLoad, images, lmode, tasks, loaded, regenLog, nextGen, loads>>
    /\ UNCHANGED <<retryVars, regen, callVars, uploadVars, playVars>>

\* the loop is over: loadCategories sets the store; debugRegenerateImages
\* goes on into loadCategories()
FinishSweep ==
    /\ lpc = "sweep"
    /\ queue = <<>>
    /\ IF lmode = "load"
       THEN /\ images' = validated
            /\ lpc' = "idle"
            /\ UNCHANGED <<lmode, tasks, validated, dbAtLoad>>
       ELSE /\ lmode' = "load"
            /\ lpc' = "getImages"
            /\ tasks' = StartTasks
            /\ validated' = {}
            /\ images' = images
            /\ dbAtLoad' = [meta |-> dbMeta, blobs |-> dbBlobs]
    /\ UNCHANGED <<dbMeta, dbBlobs, db0, loaded, queue, cur, saves, regenLog, nextGen,
                   loads, writeFaults>>
    /\ UNCHANGED <<retryVars, regen, callVars, uploadVars, playVars>>

LoadNext ==
    \/ StartLoadCategories
    \/ StartDebugRegenerateImages
    \/ \E i \in Images : GetBlobs(i)
    \/ \E i \in Images : TaskRegenerated(i)
    \/ ResolveGetImages
    \/ SweepImage
    \/ SweepRegenerated
    \/ BackgroundPut
    \/ AwaitedPut
    \/ FinishSweep

\* what is persisted before the first load: complete records, and records
\* with blob records missing or empty (data of an interrupted save or of
\* an earlier release, the cases getImages and loadCategories test for)
Damage(d) ==
    Cardinality({ik \in Images \X requiredLevels :
                    d[ik[1]][ik[2]] # StoredBlob(ik[2], EncodedSize)})

PersistedStates == {d \in [Images -> LevelSets] : Damage(d) <= MaxDamaged}

SpecLoadInit ==
    /\ RetryInit
    /\ regen = NoCall
    /\ dbMeta = Images
    /\ dbBlobs \in PersistedStates
    /\ db0 = dbBlobs
    /\ dbAtLoad = NoSnapshot
    /\ images = {}
    /\ lpc = "idle"
    /\ lmode = "load"
    /\ tasks = [i \in Images |-> NoTask]
    /\ loaded = <<>>
    /\ queue = <<>>
    /\ cur = NoRecord
    /\ validated = {}
    /\ saves = {}
    /\ regenLog = {}
    /\ nextGen = 1
    /\ loads = 0
    /\ writeFaults = 0
    /\ call = NoCall
    /\ UploadIdle
    /\ PlayIdle

SpecLoad == SpecLoadInit /\ [][LoadNext]_vars

(***************************************************************************)
(* validatePixelationLevels as a function under test                       *)
(***************************************************************************)
\* a levels object: each of level1..level4 is a non-empty blob, an empty
\* blob, null, or not a key of the object at all (undefined)
LevelObjects ==
    UNION {{ls \in [ks -> UNION {BlobStates(k) : k \in requiredLevels}] :
                \A k \in ks : ls[k] \in BlobStates(k)} : ks \in SUBSET requiredLevels}

\* one call as its caller sees it: the value returned and the argument
\* object after the call (the function assigns to nothing)
validateCall(levels) == [result |-> validatePixelationLevels(levels), levels |-> levels]

\* two calls in a row on the same object
ValidateTwice ==
    /\ call = NoCall
    /\ \E levels \in LevelObjects :
        LET first == validateCall(levels)
            second == validateCall(first.levels)
        IN  call' = [called |-> TRUE, fn |-> "validatePixelationLevels", levels |-> levels,
                     first |-> first.result, second |-> second.result,
                     after |-> second.levels]
    /\ UNCHANGED <<retryVars, regen, loadVars, uploadVars, playVars>>

ValidateNext == ValidateTwice

SpecValidateInit == RetryInit /\ regen = NoCall /\ LoadIdle /\ call = NoCall /\ UploadIdle /\ PlayIdle

SpecValidate == SpecValidateInit /\ [][ValidateNext]_vars

(***************************************************************************)
(* DatabaseService.saveImage as a function under test                      *)
(***************************************************************************)
\* the levels of a record about to be saved: blobs of a new generator run
FreshLevels(levels) ==
    [k \in DOMAIN levels |->
        IF levels[k] = Null THEN Null ELSE [levels[k] EXCEPT !.gen = 1]]

\* the blob records of an image nothing was ever saved for
NoBlobs == [k \in requiredLevels |-> Null]

\* saveImage(image) up to its first await: the check of the four sizes and
\* the throw, or the put of the metadata record is issued
CallSaveImage ==
    /\ call = NoCall
    /\ \E id \in Images, ls \in LevelObjects :
        LET levels == FreshLevels(ls)
        IN  /\ call' = [called |-> TRUE, fn |-> "saveImage", id |-> id, levels |-> levels,
                        threw |-> ~ SaveAccepts(levels), settled |-> ~ SaveAccepts(levels),
                        meta |-> dbMeta, blobs |-> dbBlobs]
            /\ saves' = IF SaveAccepts(levels)
                        THEN saves \cup {SaveTask(id, levels, "caller")}
                        ELSE saves
    /\ UNCHANGED <<dbMeta, dbBlobs, db0, dbAtLoad, images, lpc, lmode, tasks, loaded, queue, cur,
                   validated, regenLog, nextGen, loads, writeFaults>>
    /\ UNCHANGED <<retryVars, regen, uploadVars, playVars>>

\* one put of that call: it succeeds, or the request fails and saveImage
\* rejects with what was written so far left in place
CallerPut ==
    /\ \E s \in saves :
        /\ s.by = "caller"
        /\ \E ok \in BOOLEAN :
            IF ok
            THEN /\ PutWritten(s)
                 /\ writeFaults' = writeFaults
                 /\ saves' = IF s.next = 4 THEN saves \ {s}
                             ELSE (saves \ {s}) \cup {Advanced(s)}
                 /\ call' = IF s.next = 4 THEN [call EXCEPT !.settled = TRUE] ELSE call
            ELSE /\ writeFaults < MaxWriteFaults
                 /\ writeFaults' = writeFaults + 1
                 /\ saves' = saves \ {s}
                 /\ call' = [call EXCEPT !.settled = TRUE, !.threw = TRUE]
                 /\ UNCHANGED <<dbMeta, dbBlobs>>
    /\ UNCHANGED <<db0, dbAtLoad, images, lpc, lmode, tasks, loaded, queue, cur, validated, regenLog,
                   nextGen, loads>>
    /\ UNCHANGED <<retryVars, regen, uploadVars, playVars>>

SaveNext == CallSaveImage \/ CallerPut

\* some records are persisted, complete, and some ids are still free
SpecSaveInit ==
    /\ RetryInit
    /\ regen = NoCall
    /\ call = NoCall
    /\ dbMeta \in SUBSET Images
    /\ dbBlobs = [i \in Images |->
                    IF i \in dbMeta
                    THEN [k \in requiredLevels |-> StoredBlob(k, EncodedSize)]
                    ELSE NoBlobs]
    /\ db0 = dbBlobs
    /\ dbAtLoad = NoSnapshot
    /\ images = {}
    /\ lpc = "idle"
    /\ lmode = "load"
    /\ tasks = [i \in Images |-> NoTask]
    /\ loaded = <<>>
    /\ queue = <<>>
    /\ cur = NoRecord
    /\ validated = {}
    /\ saves = {}
    /\ regenLog = {}
    /\ nextGen = 1
    /\ loads = 0
    /\ writeFaults = 0
    /\ UploadIdle
    /\ PlayIdle

SpecSave == SpecSaveInit /\ [][SaveNext]_vars

(***************************************************************************)
(* ImageProcessingService.processImage                                     *)
(***************************************************************************)
\* isValidImageType: the list of utils/index.ts
validTypes == {"image/jpeg", "image/jpg", "image/png", "image/gif", "image/webp", "image/avif"}

isValidImageType(file) == file.type \in validTypes

\* the mutant: no ceiling on the size
isValidImageSize_Unchecked(file) == TRUE

\* isValidImageSize: maxSizeMB * 1024 * 1024 with maxSizeMB = 10
isValidImageSize(file) == file.size <= MaxFileBytes

\* the files a user can submit: an allowed type, the type allowed by the
\* code only, a type that is no image; a size at the ceiling and one byte over
FileTypes == {"image/jpeg", "image/avif", "text/plain"}
FileSizes == {MaxFileBytes, MaxFileBytes + 1}
Files == [type : FileTypes, size : FileSizes]
FileLists == UNION {[1..n -> Files] : n \in 0..MaxFiles}

\* ImageProcessingResult, and whether the call threw instead of returning
Done(processedImage) ==
    [success |-> TRUE, processedImage |-> processedImage, error |-> Null, threw |-> FALSE]

Failed(error) ==
    [success |-> FALSE, processedImage |-> Null, error |-> [message |-> error],
     threw |-> FALSE]

\* the mutant: the error leaves processImage
Caught_Rethrown(message) ==
    [success |-> FALSE, processedImage |-> Null, error |-> [message |-> message],
     threw |-> TRUE]

\* catch (error) { return { success: false, error: error.message } }
Caught(message) == Failed(message)

\* a processImage call: where it is, the steps it has invoked, its result
NoPipe == [pc |-> "none", steps |-> <<>>, result |-> Null]

Settled(steps, res) == [pc |-> "settled", steps |-> steps, result |-> res]

\* processImage up to its first await: the two checks, then the decode is
\* started
StartProcessImage(file) ==
    IF ~ isValidImageType(file)
    THEN Settled(<<"isValidImageType">>,
                 Failed("Invalid file type. Supported types: JPG, PNG, GIF, WebP"))
    ELSE IF ~ isValidImageSize(file)
    THEN Settled(<<"isValidImageType", "isValidImageSize">>,
                 Failed("File too large. Maximum size is 10MB"))
    ELSE [pc |-> "load",
          steps |-> <<"isValidImageType", "isValidImageSize", "loadImageFromFile">>,
          result |-> Null]

\* which service file runs and with which block-size list
PipelineVariants == {"default", "short", "older"}

VariantSizes(variant) ==
    IF variant = "short" THEN <<64, 32, 16>>
    ELSE IF variant = "older" THEN PIXELATION_LEVELS
    ELSE DEFAULT_PIXELATION_LEVELS

\* what the generation step of processImage can end with: the wrapper with
\* the final validation (part_002), or the generator alone (older file)
GenerationOutcomes(variant, gen) ==
    IF variant = "older"
    THEN {LET r == createPixelationLevelsOld(UploadSurface, enc, gen)
          IN  IF r.threw THEN Caught("Failed to create pixelation level")
              ELSE Done(Rec(gen, r.levels)) :
            enc \in {EncoderRun(4, NoFault), EncoderRun(4, [f |-> 3, kind |-> "null"])}}
    ELSE {LET r == createPixelationLevels(UploadSurface, DEFAULT_QUALITY,
                                          VariantSizes(variant), 0, script, gen)
          IN  IF ~ r.ok
              THEN Caught("Failed to create pixelation levels after 5 retries and fallback attempt")
              ELSE IF ~ validatePixelationLevels(r.levels)
              THEN Caught("Final validation failed: Generated pixelation levels are incomplete")
              ELSE Done(Rec(gen, r.levels)) :
            script \in LoadScripts}

\* img.onload or img.onerror fires
PipeLoaded(i) ==
    /\ i \in DOMAIN pipes
    /\ pipes[i].pc = "load"
    /\ \E ok \in BOOLEAN :
        pipes' = [pipes EXCEPT ![i] =
                    IF ok
                    THEN [pc |-> "resize", steps |-> Append(pipes[i].steps, "resizeImage"),
                          result |-> Null]
                    ELSE Settled(pipes[i].steps, Caught("Failed to load image"))]
    /\ UNCHANGED <<files, up, isUploading, uploadErrors, cbLog>>
    /\ UNCHANGED <<retryVars, regen, loadVars, callVars, playVars>>

\* the resize resolves with canvas and blob, or rejects
PipeResized(i) ==
    /\ i \in DOMAIN pipes
    /\ pipes[i].pc = "resize"
    /\ \E ok \in BOOLEAN :
        pipes' = [pipes EXCEPT ![i] =
                    IF ok
                    THEN [pc |-> "levels",
                          steps |-> Append(pipes[i].steps, "createPixelationLevels"),
                          result |-> Null]
                    ELSE Settled(pipes[i].steps, Caught("Failed to create blob"))]
    /\ UNCHANGED <<files, up, isUploading, uploadErrors, cbLog>>
    /\ UNCHANGED <<retryVars, regen, loadVars, callVars, playVars>>

\* the generation settles; the record is built and processImage returns
PipeGenerated(i) ==
    /\ i \in DOMAIN pipes
    /\ pipes[i].pc = "levels"
    /\ \E res \in GenerationOutcomes(up.variant, i) :
        pipes' = [pipes EXCEPT ![i] = Settled(pipes[i].steps, res)]
    /\ UNCHANGED <<files, up, isUploading, uploadErrors, cbLog>>
    /\ UNCHANGED <<retryVars, regen, loadVars, callVars, playVars>>

(***************************************************************************)
(* The orchestrators: uploadImages, processImages, processBatch            *)
(***************************************************************************)
\* one invocation of a callback for file i, and whether it threw
Cb(cb, i, threw) == [cb |-> cb, file |-> i, threw |-> threw]

Throws(log) == Len(SelectSeq(log, LAMBDA c : c.threw))

\* the mutant: the orchestrator goes on without the result
AwaitsPipeline_NotAwaited(p) == TRUE

\* `await ImageProcessingService.processImage(...)`
AwaitsPipeline(p) == p.pc = "settled"

\* what the orchestrator reads when it looks at the result
ResultOf(p) ==
    IF p.result = Null
    THEN [success |-> FALSE, processedImage |-> Null, error |-> Null, threw |-> FALSE]
    ELSE p.result

NoEffect == [succ |-> <<>>, fail |-> <<>>, results |-> <<>>, calls |-> <<>>,
             threw |-> FALSE, delay |-> FALSE]

\* uploadImages, from the await to the end of the iteration; t[k] says
\* whether the k-th callback invoked here throws
SettleUploadImages(r, i, t) ==
    IF r.threw
    THEN [NoEffect EXCEPT !.fail = <<i>>, !.calls = <<Cb("onError", i, t[1])>>,
                          !.threw = t[1], !.delay = TRUE]
    ELSE IF r.success /\ r.processedImage # Null
    THEN IF ~ t[1]
         THEN [NoEffect EXCEPT !.succ = <<i>>,
                               !.calls = <<Cb("onImageProcessed", i, FALSE)>>,
                               !.delay = TRUE]
         ELSE [NoEffect EXCEPT !.succ = <<i>>, !.fail = <<i>>,
                               !.calls = <<Cb("onImageProcessed", i, TRUE),
                                           Cb("onError", i, t[2])>>,
                               !.threw = t[2], !.delay = TRUE]
    ELSE IF ~ t[1]
         THEN [NoEffect EXCEPT !.fail = <<i>>, !.calls = <<Cb("onError", i, FALSE)>>,
                               !.delay = TRUE]
         ELSE [NoEffect EXCEPT !.fail = <<i, i>>,
                               !.calls = <<Cb("onError", i, TRUE), Cb("onError", i, t[2])>>,
                               !.threw = t[2], !.delay = TRUE]

\* processImages: the lists inside the try, onProgress after it
SettleProcessImages(r, i, t) ==
    [NoEffect EXCEPT !.succ = IF ~ r.threw /\ r.success /\ r.processedImage # Null
                              THEN <<i>> ELSE <<>>,
                     !.fail = IF ~ r.threw /\ r.success /\ r.processedImage # Null
                              THEN <<>> ELSE <<i>>,
                     !.calls = <<Cb("onProgress", i, t[1])>>,
                     !.threw = t[1]]

\* processBatch: result and callbacks inside the try, then the 150 ms wait;
\* the catch pushes an error result and invokes the callbacks again
SettleProcessBatch(r, i, t) ==
    LET tryCalls == IF r.threw THEN <<>>
                    ELSE IF t[1] THEN <<Cb("onImageComplete", i, TRUE)>>
                    ELSE <<Cb("onImageComplete", i, FALSE), Cb("onProgress", i, t[2])>>
        tryThrew == r.threw \/ t[1] \/ t[2]
        catchCalls == IF t[3] THEN <<Cb("onImageComplete", i, TRUE)>>
                      ELSE <<Cb("onImageComplete", i, FALSE), Cb("onProgress", i, t[4])>>
    IN  IF ~ tryThrew
        THEN [NoEffect EXCEPT !.results = <<[file |-> i, success |-> r.success]>>,
                              !.calls = tryCalls, !.delay = TRUE]
        ELSE [NoEffect EXCEPT !.results = (IF r.threw THEN <<>>
                                           ELSE <<[file |-> i, success |-> r.success]>>)
                                          \o <<[file |-> i, success |-> FALSE]>>,
                              !.calls = tryCalls \o catchCalls,
                              !.threw = t[3] \/ t[4]]

Settle(name, r, i, t) ==
    IF name = "uploadImages" THEN SettleUploadImages(r, i, t)
    ELSE IF name = "processImages" THEN SettleProcessImages(r, i, t)
    ELSE SettleProcessBatch(r, i, t)

\* a run is entered: the lists are set up and processImage is called for the
\* first file (uploadImages first tests and sets isUploading)
CallOrchestrator(name) ==
    /\ up = NoUpload
    /\ ~ isUploading
    /\ \E fs \in FileLists, variant \in PipelineVariants :
        /\ files' = fs
        /\ pipes' = [i \in 1..Len(fs) |-> IF i = 1 THEN StartProcessImage(fs[1]) ELSE NoPipe]
        /\ up' = [NoUpload EXCEPT !.name = name, !.variant = variant,
                                  !.pc = IF Len(fs) = 0 THEN "returned" ELSE "await",
                                  !.i = IF Len(fs) = 0 THEN 0 ELSE 1]
        /\ isUploading' = (name = "uploadImages" /\ Len(fs) > 0)
    /\ uploadErrors' = <<>>
    /\ UNCHANGED cbLog
    /\ UNCHANGED <<retryVars, regen, loadVars, callVars, playVars>>

CallUploadImages == CallOrchestrator("uploadImages")
CallProcessImages == CallOrchestrator("processImages")
CallProcessBatch == CallOrchestrator("processBatch")

\* the awaited processImage has settled: the rest of the iteration runs, and
\* the run throws, returns, waits, or calls processImage for the next file
Resume(name) ==
    /\ up.name = name
    /\ up.pc = "await"
    /\ AwaitsPipeline(pipes[up.i])
    /\ \E t \in [1..4 -> BOOLEAN] :
        LET e == Settle(name, ResultOf(pipes[up.i]), up.i, t)
            last == up.i = Len(files)
            pc2 == IF e.threw THEN "thrown"
                   ELSE IF last THEN "returned"
                   ELSE IF e.delay THEN "delay"
                   ELSE "await"
        IN  /\ Throws(cbLog \o e.calls) <= MaxCallbackThrows
            /\ up' = [up EXCEPT !.successful = @ \o e.succ,
                                !.failed = @ \o e.fail,
                                !.results = @ \o e.results,
                                !.pc = pc2,
                                !.i = IF pc2 = "await" THEN up.i + 1 ELSE up.i]
            /\ pipes' = IF pc2 = "await"
                        THEN [pipes EXCEPT ![up.i + 1] = StartProcessImage(files[up.i + 1])]
                        ELSE pipes
            /\ uploadErrors' = IF name = "uploadImages" THEN uploadErrors \o e.fail
                               ELSE uploadErrors
            /\ isUploading' = IF pc2 \in {"thrown", "returned"} THEN FALSE ELSE isUploading
            /\ cbLog' = cbLog \o e.calls
    /\ UNCHANGED files
    /\ UNCHANGED <<retryVars, regen, loadVars, callVars, playVars>>

UploadImagesResumes == Resume("uploadImages")
ProcessImagesResumes == Resume("processImages")
ProcessBatchResumes == Resume("processBatch")

\* the wait between two files is over: processImage is called for the next
DelayDone ==
    /\ up.pc = "delay"
    /\ up' = [up EXCEPT !.pc = "await", !.i = up.i + 1]
    /\ pipes' = [pipes EXCEPT ![up.i + 1] = StartProcessImage(files[up.i + 1])]
    /\ UNCHANGED <<files, isUploading, uploadErrors, cbLog>>
    /\ UNCHANGED <<retryVars, regen, loadVars, callVars, playVars>>

UploadNext ==
    \/ CallUploadImages
    \/ CallProcessImages
    \/ CallProcessBatch
    \/ \E i \in 1..MaxFiles : PipeLoaded(i)
    \/ \E i \in 1..MaxFiles : PipeResized(i)
    \/ \E i \in 1..MaxFiles : PipeGenerated(i)
    \/ UploadImagesResumes
    \/ ProcessImagesResumes
    \/ ProcessBatchResumes
    \/ DelayDone

SpecUploadInit == RetryInit /\ regen = NoCall /\ LoadIdle /\ call = NoCall /\ UploadIdle /\ PlayIdle

SpecUpload == SpecUploadInit /\ [][UploadNext]_vars

(***************************************************************************)
(* resizeImage as a function under test                                    *)
(***************************************************************************)
\* Math.round(n / d) for n >= 0, d > 0: halves go up
Round(n, d) == (2 * n + d) \div (2 * d)

\* the dimensions resizeImage gives the canvas
ResizedDimensions(width, height, maxWidth, minWidth) ==
    IF width > maxWidth
    THEN [width |-> maxWidth, height |-> Round(height * maxWidth, width)]
    ELSE IF width < minWidth
    THEN [width |-> minWidth, height |-> Round(height * minWidth, width)]
    ELSE [width |-> width, height |-> height]

\* canvas.toBlob: no blob for a canvas without pixels, else the encoder
\* gives one or not
ResizeOutcome(dimensions, encoded) ==
    IF dimensions.width = 0 \/ dimensions.height = 0 \/ ~ encoded
    THEN [rejected |-> TRUE, error |-> "Failed to create blob", dimensions |-> dimensions]
    ELSE [rejected |-> FALSE, error |-> "", dimensions |-> dimensions]

CallResizeImage ==
    /\ call = NoCall
    /\ \E width \in 1..MaxNativeWidth, height \in 1..MaxNativeHeight,
          maxWidth \in 1..MaxTargetWidth, minWidth \in 1..MaxTargetWidth,
          encoded \in BOOLEAN :
        call' = [called |-> TRUE, fn |-> "resizeImage",
                 width |-> width, height |-> height,
                 maxWidth |-> maxWidth, minWidth |-> minWidth, encoded |-> encoded,
                 out |-> ResizeOutcome(ResizedDimensions(width, height, maxWidth, minWidth),
                                       encoded)]
    /\ UNCHANGED <<retryVars, regen, loadVars, uploadVars, playVars>>

ResizeNext == CallResizeImage

SpecResizeInit == RetryInit /\ regen = NoCall /\ LoadIdle /\ call = NoCall /\ UploadIdle /\ PlayIdle

SpecResize == SpecResizeInit /\ [][ResizeNext]_vars

(***************************************************************************)
(* createPixelatedImage                                                    *)
(***************************************************************************)
\* the pixels of a canvas: data[y * width + x] is <<R, G, B, A>>
PixelValues == {<<0, 0, 0, 255>>, <<255, 1, 2, 254>>}

ImageData(width, height) == [0..(width * height - 1) -> PixelValues]

\* the idx values the two inner loops visit for the block at (x, y)
BlockIndexes(x, y, width, height, pixelSize) ==
    {(y + dy) * width + (x + dx) :
        <<dx, dy>> \in {d \in (0..(pixelSize - 1)) \X (0..(pixelSize - 1)) :
                            x + d[1] < width /\ y + d[2] < height}}

RECURSIVE SumChannel(_, _, _)
SumChannel(data, idxs, c) ==
    IF idxs = {} THEN 0
    ELSE LET i == CHOOSE i \in idxs : TRUE
         IN  data[i][c] + SumChannel(data, idxs \ {i}, c)

\* the mutant: the mean is cut off
BlockMean_Truncated(sum, count) == sum \div count

\* r = Math.round(r / count)
BlockMean(sum, count) == Round(sum, count)

\* one block: the four sums, the four means, the block filled with them
FillBlock(data, idxs) ==
    LET count == Cardinality(idxs)
        mean == [c \in 1..4 |-> BlockMean(SumChannel(data, idxs, c), count)]
    IN  IF count > 0
        THEN [i \in DOMAIN data |-> IF i \in idxs THEN mean ELSE data[i]]
        ELSE data

\* the two outer loops from (x, y) on, working in place; for pixelSize <= 0
\* neither loop variable grows and the loops do not end
RECURSIVE PixelateFrom(_, _, _, _, _, _)
PixelateFrom(data, width, height, pixelSize, x, y) ==
    IF y >= height THEN data
    ELSE IF x >= width THEN PixelateFrom(data, width, height, pixelSize, 0, y + pixelSize)
    ELSE PixelateFrom(FillBlock(data, BlockIndexes(x, y, width, height, pixelSize)),
                      width, height, pixelSize, x + pixelSize, y)

Pixelate(data, width, height, pixelSize) == PixelateFrom(data, width, height, pixelSize, 0, 0)

\* what can go wrong in the synchronous part
CanvasFaults == {"none", "getContext", "getImageData", "putImageData"}

\* the promise with nothing decided, and after reject(error) or resolve(blob)
PixelatePending(c) ==
    [c EXCEPT !.stage = "pending", !.encoder = "pending"]

PixelateRejected(c, error) ==
    [c EXCEPT !.stage = "done", !.timer = "cleared", !.outcome = "rejected",
              !.error = error, !.settles = 1]

\* the executor of the promise up to the toBlob request
RunCreatePixelatedImage(width, height, data, pixelSize, fault) ==
    LET c == [called |-> TRUE, fn |-> "createPixelatedImage", width |-> width,
              height |-> height, data |-> data, pixelSize |-> pixelSize, fault |-> fault,
              canvas |-> data, stage |-> "sync", timer |-> "armed", encoder |-> "none",
              outcome |-> "none", error |-> "", blobSize |-> 0, settles |-> 0, late |-> 0]
    IN  IF fault = "getContext" THEN PixelateRejected(c, "Could not get canvas context")
        ELSE IF width <= 0 \/ height <= 0 THEN PixelateRejected(c, "Invalid canvas dimensions")
        ELSE IF fault = "getImageData" THEN PixelateRejected(c, "Failed to get image data")
        ELSE IF pixelSize <= 0 THEN [c EXCEPT !.stage = "looping"]
        ELSE IF fault = "putImageData" THEN PixelateRejected(c, "Failed to put image data")
        ELSE PixelatePending([c EXCEPT !.canvas = Pixelate(data, width, height, pixelSize)])

CallCreatePixelatedImage ==
    /\ call = NoCall
    /\ \E width \in 1..MaxCanvasWidth, height \in 0..MaxCanvasHeight,
          pixelSize \in (-1)..MaxBlockSize, fault \in CanvasFaults :
        \E data \in ImageData(width, height) :
            call' = RunCreatePixelatedImage(width, height, data, pixelSize, fault)
    /\ UNCHANGED <<retryVars, regen, loadVars, uploadVars, playVars>>

\* the callback of canvas.toBlob runs: the timer is cleared, and resolve or
\* reject is called, which a promise already settled ignores
ToBlobCallback ==
    /\ call.called
    /\ call.fn = "createPixelatedImage"
    /\ call.encoder = "pending"
    /\ \E size \in {0, EncodedSize} :
        call' = [call EXCEPT
                    !.encoder = "called",
                    !.stage = "done",
                    !.timer = IF @ = "armed" THEN "cleared" ELSE @,
                    !.outcome = IF @ # "none" THEN @
                                ELSE IF size > 0 THEN "resolved" ELSE "rejected",
                    !.error = IF call.outcome # "none" THEN @
                              ELSE IF size > 0 THEN "" ELSE "Failed to create pixelated blob",
                    !.blobSize = IF call.outcome = "none" THEN size ELSE @,
                    !.settles = IF call.outcome = "none" THEN @ + 1 ELSE @,
                    !.late = IF call.outcome = "none" THEN @ ELSE @ + 1]
    /\ UNCHANGED <<retryVars, regen, loadVars, uploadVars, playVars>>

\* the 15 s timer runs out; a timer callback runs only when the thread is
\* not inside the loops
PixelateTimeout ==
    /\ call.called
    /\ call.fn = "createPixelatedImage"
    /\ call.timer = "armed"
    /\ call.stage = "pending"
    /\ call' = [call EXCEPT !.timer = "fired", !.outcome = "rejected",
                            !.error = "Timeout creating pixelated image",
                            !.settles = @ + 1]
    /\ UNCHANGED <<retryVars, regen, loadVars, uploadVars, playVars>>

PixelateNext ==
    \/ CallCreatePixelatedImage
    \/ ToBlobCallback
    \/ PixelateTimeout

SpecPixelateInit == RetryInit /\ regen = NoCall /\ LoadIdle /\ call = NoCall /\ UploadIdle /\ PlayIdle

SpecPixelate == SpecPixelateInit /\ [][PixelateNext]_vars

\* timers fire; the encoder is under no obligation
SpecPixelateFair == SpecPixelate /\ WF_vars(PixelateTimeout)

(***************************************************************************)
(* The level generator on pixels: the shared surface and the level canvas  *)
(***************************************************************************)
\* the mutant: the level is worked on the shared surface itself
LevelCanvas_Shared == "shared"

\* levelCanvas = document.createElement('canvas'): a canvas of its own
LevelCanvas == "level"

\* block sizes in the lists: 0 (the level is the surface as it is) and two
\* sizes that cut the canvas differently
GeneratorBlockSizes == {0, 2, MaxBlockSize}

BlockSizeLists == UNION {[1..n -> GeneratorBlockSizes] : n \in 1..MaxListLen}

\* a canvas after clearRect and the reset to 1 x 1
ClearedCanvas == <<>>

\* the blob the encoder makes of a canvas
EncodeCanvas(data) == [size |-> EncodedSize, content |-> data]

\* one round of the loop on the canvases: the copy (drawImage), the
\* pixelation of the level canvas in place, the blob, the cleanup in finally
LevelRound(canvases, width, height, pixelSize, encoded) ==
    LET copied == [canvases EXCEPT !["level"] = canvases["shared"]]
        worked == IF pixelSize = 0 THEN copied
                  ELSE [copied EXCEPT ![LevelCanvas] =
                            Pixelate(copied[LevelCanvas], width, height, pixelSize)]
        cleaned == [worked EXCEPT ![LevelCanvas] = ClearedCanvas]
    IN  [canvases |-> cleaned,
         threw |-> ~ encoded,
         blob |-> IF encoded THEN EncodeCanvas(worked[LevelCanvas]) ELSE Null]

\* createPixelationLevelsInternal(canvas, quality, pixelSizes) is called
GeneratorStart ==
    /\ call = NoCall
    /\ \E data \in ImageData(MaxCanvasWidth, MaxCanvasHeight), sizes \in BlockSizeLists :
        \E failAt \in 0..Len(sizes) :
            call' = [called |-> TRUE, fn |-> "createPixelationLevelsInternal",
                     width |-> MaxCanvasWidth, height |-> MaxCanvasHeight,
                     original |-> data, sizes |-> sizes, failAt |-> failAt,
                     canvases |-> [shared |-> data, level |-> ClearedCanvas],
                     i |-> 1, levels |-> NoLevels, outcome |-> "none"]
    /\ UNCHANGED <<retryVars, regen, loadVars, uploadVars, playVars>>

\* one iteration: levels[`level${i + 1}`] is set, or the error leaves the
\* generator
GenerateLevel ==
    /\ call.called
    /\ call.fn = "createPixelationLevelsInternal"
    /\ call.outcome = "none"
    /\ call.i <= Len(call.sizes)
    /\ LET r == LevelRound(call.canvases, call.width, call.height, call.sizes[call.i],
                           call.i # call.failAt)
       IN  call' = IF r.threw
                   THEN [call EXCEPT !.canvases = r.canvases, !.outcome = "thrown",
                                     !.levels = NoLevels]
                   ELSE [call EXCEPT !.canvases = r.canvases, !.i = @ + 1,
                                     !.levels = (call.i :> r.blob) @@ @]
    /\ UNCHANGED <<retryVars, regen, loadVars, uploadVars, playVars>>

\* after the loop: the final check (every level set is non-empty here), return
GeneratorReturns ==
    /\ call.called
    /\ call.fn = "createPixelationLevelsInternal"
    /\ call.outcome = "none"
    /\ call.i > Len(call.sizes)
    /\ call' = [call EXCEPT !.outcome = "returned"]
    /\ UNCHANGED <<retryVars, regen, loadVars, uploadVars, playVars>>

LevelsNext ==
    \/ GeneratorStart
    \/ GenerateLevel
    \/ GeneratorReturns

SpecLevelsInit == RetryInit /\ regen = NoCall /\ LoadIdle /\ call = NoCall /\ UploadIdle /\ PlayIdle

SpecLevels == SpecLevelsInit /\ [][LevelsNext]_vars

(***************************************************************************)
(* blobToBase64 and base64ToBlob                                           *)
(***************************************************************************)
\* a base64 string is modelled as the sequence of its characters' values:
\* 0..63 for the alphabet, Pad for '='
Pad == 64

Undefined == [undefined |-> TRUE]

ByteValues == {0, 97, 255}

ByteSequences == UNION {[1..n -> ByteValues] : n \in 0..MaxBytes}

\* the base64 text of the bytes from position i on
RECURSIVE Base64From(_, _)
Base64From(bytes, i) ==
    LET left == Len(bytes) - i + 1
    IN  IF left <= 0 THEN <<>>
        ELSE IF left = 1
        THEN <<bytes[i] \div 4, (bytes[i] % 4) * 16, Pad, Pad>>
        ELSE IF left = 2
        THEN <<bytes[i] \div 4, (bytes[i] % 4) * 16 + bytes[i + 1] \div 16,
               (bytes[i + 1] % 16) * 4, Pad>>
        ELSE <<bytes[i] \div 4, (bytes[i] % 4) * 16 + bytes[i + 1] \div 16,
               (bytes[i + 1] % 16) * 4 + bytes[i + 2] \div 64, bytes[i + 2] % 64>>
             \o Base64From(bytes, i + 3)

\* reader.readAsDataURL(blob): "data:<type>;base64,<text>"; for a blob without
\* bytes a browser gives that with an empty text, or just "data:"
DataURLs(bytes) ==
    {[comma |-> TRUE, text |-> Base64From(bytes, 1)]}
        \cup (IF Len(bytes) = 0 THEN {[comma |-> FALSE, text |-> <<>>]} ELSE {})

\* reader.result.split(',')[1]
AfterComma(url) == IF url.comma THEN url.text ELSE Undefined

\* the text "undefined", which atob gets for the value undefined: u n d e f
\* i n e d in the base64 alphabet
UndefinedText == <<46, 39, 29, 30, 31, 34, 39, 30, 29>>

\* the bytes of the characters from position i on, four characters a group;
\* a last group of two or three characters gives one or two bytes
RECURSIVE BytesFrom(_, _)
BytesFrom(chars, i) ==
    LET left == Len(chars) - i + 1
    IN  IF left <= 1 THEN <<>>
        ELSE IF left = 2
        THEN <<chars[i] * 4 + chars[i + 1] \div 16>>
        ELSE IF left = 3
        THEN <<chars[i] * 4 + chars[i + 1] \div 16,
               (chars[i + 1] % 16) * 16 + chars[i + 2] \div 4>>
        ELSE <<chars[i] * 4 + chars[i + 1] \div 16,
               (chars[i + 1] % 16) * 16 + chars[i + 2] \div 4,
               (chars[i + 2] % 4) * 64 + chars[i + 3]>>
             \o BytesFrom(chars, i + 4)

\* atob(text): padding at the end is taken off when the length is a multiple
\* of 4; a '=' left inside or a length of 4n+1 is an InvalidCharacterError
atob(text) ==
    LET chars == IF text = Undefined THEN UndefinedText ELSE text
        n == Len(chars)
        pads == IF n % 4 = 0 /\ n > 0
                THEN IF chars[n] = Pad /\ chars[n - 1] = Pad THEN 2
                     ELSE IF chars[n] = Pad THEN 1 ELSE 0
                ELSE 0
        body == SubSeq(chars, 1, n - pads)
    IN  IF (\E k \in DOMAIN body : body[k] = Pad) \/ Len(body) % 4 = 1
        THEN [threw |-> TRUE, bytes |-> <<>>]
        ELSE [threw |-> FALSE, bytes |-> BytesFrom(body, 1)]

\* ImageProcessingService.base64ToBlob
ServiceBase64ToBlob(base64) == atob(base64)

\* DatabaseService.base64ToBlob: if (!base64) return new Blob()
DatabaseBase64ToBlob(base64) ==
    IF base64 = Undefined \/ base64 = <<>>
    THEN [threw |-> FALSE, bytes |-> <<>>]
    ELSE atob(base64)

RoundTrip(service, bytes, url) ==
    [called |-> TRUE, fn |-> "base64", service |-> service, bytes |-> bytes,
     base64 |-> AfterComma(url),
     out |-> IF service = "DatabaseService" THEN DatabaseBase64ToBlob(AfterComma(url))
             ELSE ServiceBase64ToBlob(AfterComma(url))]

\* ImageProcessingService.base64ToBlob(await blobToBase64(blob))
ServiceRoundTrip ==
    /\ call = NoCall
    /\ \E bytes \in ByteSequences : \E url \in DataURLs(bytes) :
        call' = RoundTrip("ImageProcessingService", bytes, url)
    /\ UNCHANGED <<retryVars, regen, loadVars, uploadVars, playVars>>

\* DatabaseService: base64ToBlob(await blobToBase64(blob))
DatabaseRoundTrip ==
    /\ call = NoCall
    /\ \E bytes \in ByteSequences : \E url \in DataURLs(bytes) :
        call' = RoundTrip("DatabaseService", bytes, url)
    /\ UNCHANGED <<retryVars, regen, loadVars, uploadVars, playVars>>

Base64Next ==
    \/ ServiceRoundTrip
    \/ DatabaseRoundTrip

SpecBase64Init == RetryInit /\ regen = NoCall /\ LoadIdle /\ call = NoCall /\ UploadIdle /\ PlayIdle

SpecBase64 == SpecBase64Init /\ [][Base64Next]_vars

(***************************************************************************)
(* DatabaseService.importData                                              *)
(***************************************************************************)
CategoryIds == 1..NumCategories

\* the four object stores: the keys of categories and images, the images
\* that have their blob records, whether there are settings
Database(categories, imageIds, settings) ==
    [categories |-> categories, images |-> imageIds, blobs |-> imageIds,
     settings |-> settings]

Databases ==
    {Database(c, i, s) : c \in SUBSET CategoryIds, i \in SUBSET Images, s \in BOOLEAN}

\* the levels importData builds for an image of the backup: every key of
\* data.blobs that is there gives a blob, a missing one gives null
BackupLevels == {[k \in requiredLevels |-> StoredBlob(k, EncodedSize)],
                 [k \in requiredLevels |->
                    IF k = 2 THEN Null ELSE StoredBlob(k, EncodedSize)]}

\* backup files: with or without the fields the first check wants
Backups ==
    {[valid |-> v, categories |-> KeyOrder(c), images |-> KeyOrder(i), levels |-> l] :
        v \in BOOLEAN, c \in SUBSET CategoryIds, i \in SUBSET Images,
        l \in [Images -> BackupLevels]}

storeNames == <<"categories", "images", "blobs", "settings">>

\* store.clear() on one store
Cleared(db, storeName) ==
    IF storeName = "settings" THEN [db EXCEPT !.settings = FALSE]
    ELSE [db EXCEPT ![storeName] = {}]

\* importData(data) up to its first await: the structure check and the throw,
\* or clearAllData is entered
StartImportData ==
    /\ call = NoCall
    /\ \E db \in Databases, data \in Backups :
        call' = [called |-> TRUE, fn |-> "importData", before |-> db, db |-> db,
                 data |-> data, next |-> 1,
                 pcx |-> IF data.valid THEN "clearAllData" ELSE "thrown"]
    /\ UNCHANGED <<retryVars, regen, loadVars, uploadVars, playVars>>

\* clearAllData: one store after the other
ClearStore ==
    /\ call.called
    /\ call.fn = "importData"
    /\ call.pcx = "clearAllData"
    /\ call' = [call EXCEPT !.db = Cleared(@, storeNames[call.next]),
                            !.next = IF call.next = Len(storeNames) THEN 1 ELSE @ + 1,
                            !.pcx = IF call.next = Len(storeNames) THEN "categories" ELSE @]
    /\ UNCHANGED <<retryVars, regen, loadVars, uploadVars, playVars>>

\* the loop over data.categories: saveCategory(category)
ImportCategory ==
    /\ call.called
    /\ call.fn = "importData"
    /\ call.pcx = "categories"
    /\ call' = IF call.next > Len(call.data.categories)
               THEN [call EXCEPT !.pcx = "images", !.next = 1]
               ELSE [call EXCEPT !.db.categories = @ \cup {call.data.categories[call.next]},
                                 !.next = @ + 1]
    /\ UNCHANGED <<retryVars, regen, loadVars, uploadVars, playVars>>

\* the loop over data.images: saveImage(image), whose rejection is logged
\* and passed over
ImportImage ==
    /\ call.called
    /\ call.fn = "importData"
    /\ call.pcx = "images"
    /\ call' = IF call.next > Len(call.data.images)
               THEN [call EXCEPT !.pcx = "done"]
               ELSE LET id == call.data.images[call.next]
                    IN  IF SaveAccepts(call.data.levels[id])
                        THEN [call EXCEPT !.db.images = @ \cup {id},
                                          !.db.blobs = @ \cup {id},
                                          !.next = @ + 1]
                        ELSE [call EXCEPT !.next = @ + 1]
    /\ UNCHANGED <<retryVars, regen, loadVars, uploadVars, playVars>>

ImportNext ==
    \/ StartImportData
    \/ ClearStore
    \/ ImportCategory
    \/ ImportImage

SpecImportInit == RetryInit /\ regen = NoCall /\ LoadIdle /\ call = NoCall /\ UploadIdle /\ PlayIdle

SpecImport == SpecImportInit /\ [][ImportNext]_vars

(***************************************************************************)
(* The game store and the keyboard handler of GamePlay                     *)
(***************************************************************************)
canGoNext(g) == g.currentImageIndex < g.total - 1

canGoPrevious(g) == g.currentImageIndex > 0

canRevealMore(g) == g.currentPixelationLevel < 4

nextImage(g) ==
    IF canGoNext(g)
    THEN [g EXCEPT !.currentImageIndex = @ + 1, !.currentPixelationLevel = 1]
    ELSE g

previousImage(g) ==
    IF canGoPrevious(g)
    THEN [g EXCEPT !.currentImageIndex = @ - 1, !.currentPixelationLevel = 1]
    ELSE g

revealMore(g) ==
    IF canRevealMore(g) THEN [g EXCEPT !.currentPixelationLevel = @ + 1] ELSE g

resetImage(g) == [g EXCEPT !.currentPixelationLevel = 1]

pauseGame(g) == [g EXCEPT !.gameMode = "paused"]

resumeGame(g) == [g EXCEPT !.gameMode = "playing"]

\* the keys pressed: the two that go forward, three other shortcuts and a
\* key without a case (f, the asynchronous fullscreen switch, is left out,
\* and Escape is pressed outside fullscreen)
Keys == {"ArrowRight", " ", "ArrowLeft", "r", "Escape", "a"}

ForwardKeys == {"ArrowRight", " "}

\* one run of handleKeydown
handleKeydown(g, key) ==
    IF g.gameMode # "playing" THEN g
    ELSE IF key \in ForwardKeys
    THEN IF canRevealMore(g) THEN revealMore(g)
         ELSE IF canGoNext(g) THEN nextImage(g)
         ELSE g
    ELSE IF key = "ArrowLeft" THEN previousImage(g)
    ELSE IF key \in {"r", "R"} THEN resetImage(g)
    ELSE IF key = "Escape" THEN pauseGame(g)
    ELSE g

\* the listeners a keydown event reaches: the one of the root element
\* (@keydown) when the focus is inside it, then, the event bubbling on, the
\* one onMounted put on document
Listeners(focusInside) == IF focusInside THEN 2 ELSE 1

RECURSIVE Dispatch(_, _, _)
Dispatch(g, key, listeners) ==
    IF listeners = 0 THEN g ELSE Dispatch(handleKeydown(g, key), key, listeners - 1)

\* startGame(category, images) with total images, no shuffle
StartGame ==
    /\ game.gameMode = "setup"
    /\ \E total \in 1..MaxGameImages, focusInside \in BOOLEAN :
        /\ game' = [gameMode |-> "playing", total |-> total, currentImageIndex |-> 0,
                    currentPixelationLevel |-> 1]
        /\ play' = [NoPlay EXCEPT !.focusInside = focusInside]
    /\ UNCHANGED <<retryVars, regen, loadVars, callVars, uploadVars>>

\* one press of a key while the GamePlay view is mounted
KeyPress ==
    /\ game.gameMode # "setup"
    /\ play.presses < MaxPresses
    /\ \E key \in Keys :
        /\ game' = Dispatch(game, key, Listeners(play.focusInside))
        /\ play' = [play EXCEPT
                        !.presses = @ + 1,
                        !.onlyForward = @ /\ key \in ForwardKeys /\ game.gameMode = "playing",
                        !.last = [key |-> key, before |-> game, after |-> game']]
    /\ UNCHANGED <<retryVars, regen, loadVars, callVars, uploadVars>>

\* a click on a control of the view, or outside it
MoveFocus ==
    /\ game.gameMode # "setup"
    /\ play' = [play EXCEPT !.focusInside = ~ @]
    /\ UNCHANGED <<game, retryVars, regen, loadVars, callVars, uploadVars>>

\* the Resume button
ResumeGame ==
    /\ game.gameMode = "paused"
    /\ game' = resumeGame(game)
    /\ play' = [play EXCEPT !.focusInside = TRUE]
    /\ UNCHANGED <<retryVars, regen, loadVars, callVars, uploadVars>>

\* endGame, and the view is left
EndGame ==
    /\ game.gameMode # "setup"
    /\ game' = NewGame
    /\ play' = NoPlay
    /\ UNCHANGED <<retryVars, regen, loadVars, callVars, uploadVars>>

PlayNext ==
    \/ StartGame
    \/ KeyPress
    \/ MoveFocus
    \/ ResumeGame
    \/ EndGame

SpecPlayInit == RetryInit /\ regen = NoCall /\ LoadIdle /\ call = NoCall /\ UploadIdle /\ PlayIdle

SpecPlay == SpecPlayInit /\ [][PlayNext]_vars

(***************************************************************************)
(* useImageUpload: the isUploading guard, clearErrors and reset            *)
(***************************************************************************)
\* the runs of uploadImages on one instance: how many calls were made, how
\* many of them are inside the try block, and how the last call was taken
NoRuns == [called |-> TRUE, fn |-> "useImageUpload", calls |-> 0, active |-> 0,
           last |-> "none", activeAtLast |-> 0,
           checked |-> [files |-> <<>>, valid |-> <<>>, invalid |-> <<>>]]

\* the list written into validateFiles
checkedTypes == {"image/jpeg", "image/jpg", "image/png", "image/gif", "image/webp"}

\* validateFiles(files) from file i on: the type check, then the size check,
\* then valid.push(file); files are named by their index
RECURSIVE ValidateFrom(_, _, _, _)
ValidateFrom(fileArray, i, valid, invalid) ==
    IF i > Len(fileArray) THEN [files |-> fileArray, valid |-> valid, invalid |-> invalid]
    ELSE IF fileArray[i].type \notin checkedTypes
    THEN ValidateFrom(fileArray, i + 1, valid,
                      Append(invalid, [file |-> i, reason |-> "Invalid file type"]))
    ELSE IF fileArray[i].size > MaxFileBytes
    THEN ValidateFrom(fileArray, i + 1, valid,
                      Append(invalid, [file |-> i, reason |-> "File too large"]))
    ELSE ValidateFrom(fileArray, i + 1, Append(valid, i), invalid)

validateFiles(fileArray) == ValidateFrom(fileArray, 1, <<>>, <<>>)

\* the view checks a selection of files
CallValidateFiles ==
    /\ call.called
    /\ call.fn = "useImageUpload"
    /\ \E fileArray \in FileLists : call' = [call EXCEPT !.checked = validateFiles(fileArray)]
    /\ UNCHANGED <<isUploading, uploadErrors, files, pipes, up, cbLog>>
    /\ UNCHANGED <<retryVars, regen, loadVars, playVars>>

\* uploadImages(files, categoryId) up to its first await: the guard throws,
\* or the flag is set, the errors are emptied and the loop is entered
EnterUploadImages ==
    /\ call.called
    /\ call.fn = "useImageUpload"
    /\ call.calls < MaxUploadCalls
    /\ IF isUploading
       THEN /\ call' = [call EXCEPT !.calls = @ + 1, !.last = "rejected",
                                    !.activeAtLast = call.active]
            /\ UNCHANGED <<isUploading, uploadErrors>>
       ELSE /\ call' = [call EXCEPT !.calls = @ + 1, !.active = @ + 1, !.last = "accepted",
                                    !.activeAtLast = call.active]
            /\ isUploading' = TRUE
            /\ uploadErrors' = <<>>
    /\ UNCHANGED <<files, pipes, up, cbLog>>
    /\ UNCHANGED <<retryVars, regen, loadVars, playVars>>

\* a file of a run fails: uploadErrors.value.push(error)
RunRecordsError ==
    /\ call.called
    /\ call.fn = "useImageUpload"
    /\ call.active > 0
    /\ Len(uploadErrors) < MaxFiles
    /\ uploadErrors' = Append(uploadErrors, Len(uploadErrors) + 1)
    /\ UNCHANGED <<call, isUploading, files, pipes, up, cbLog>>
    /\ UNCHANGED <<retryVars, regen, loadVars, playVars>>

\* a run leaves the try block, returning or throwing: finally
LeaveUploadImages ==
    /\ call.called
    /\ call.fn = "useImageUpload"
    /\ call.active > 0
    /\ call' = [call EXCEPT !.active = @ - 1]
    /\ isUploading' = FALSE
    /\ UNCHANGED <<uploadErrors, files, pipes, up, cbLog>>
    /\ UNCHANGED <<retryVars, regen, loadVars, playVars>>

ClearErrors ==
    /\ call.called
    /\ call.fn = "useImageUpload"
    /\ uploadErrors # <<>>
    /\ uploadErrors' = <<>>
    /\ UNCHANGED <<call, isUploading, files, pipes, up, cbLog>>
    /\ UNCHANGED <<retryVars, regen, loadVars, playVars>>

\* reset(): the flag is cleared whether a run is in progress or not
Reset ==
    /\ call.called
    /\ call.fn = "useImageUpload"
    /\ isUploading \/ uploadErrors # <<>>
    /\ isUploading' = FALSE
    /\ uploadErrors' = <<>>
    /\ UNCHANGED <<call, files, pipes, up, cbLog>>
    /\ UNCHANGED <<retryVars, regen, loadVars, playVars>>

GuardNext ==
    \/ CallValidateFiles
    \/ EnterUploadImages
    \/ RunRecordsError
    \/ LeaveUploadImages
    \/ ClearErrors
    \/ Reset

SpecGuardInit ==
    RetryInit /\ regen = NoCall /\ LoadIdle /\ call = NoRuns /\ UploadIdle /\ PlayIdle

SpecGuard == SpecGuardInit /\ [][GuardNext]_vars

(***************************************************************************)
(* The game store, driven through its actions                              *)
(***************************************************************************)
\* the store as defineStore builds it, with whether currentCategory is set
NewStore == [gameMode |-> "setup", total |-> 0, currentImageIndex |-> 0,
             currentPixelationLevel |-> 1, hasCategory |-> FALSE]

NoAction == [called |-> TRUE, fn |-> "useGameStore", store |-> NewStore,
             action |-> "none", before |-> NewStore]

\* startGame(category, images) with total images, no shuffle
startGame(g, total) ==
    [gameMode |-> "playing", total |-> total, currentImageIndex |-> 0,
     currentPixelationLevel |-> 1, hasCategory |-> TRUE]

goToImage(g, index) ==
    IF index >= 0 /\ index < g.total
    THEN [g EXCEPT !.currentImageIndex = index, !.currentPixelationLevel = 1]
    ELSE g

endGame(g) == NewStore

\* the store after one action; index is goToImage's argument and total the
\* length of startGame's images
StoreAfter(g, action, index, total) ==
    CASE action = "startGame" -> startGame(g, total)
      [] action = "nextImage" -> nextImage(g)
      [] action = "previousImage" -> previousImage(g)
      [] action = "goToImage" -> goToImage(g, index)
      [] action = "revealMore" -> revealMore(g)
      [] action = "resetImage" -> resetImage(g)
      [] action = "pauseGame" -> pauseGame(g)
      [] action = "resumeGame" -> resumeGame(g)
      [] action = "endGame" -> endGame(g)

StoreActions == {"startGame", "nextImage", "previousImage", "goToImage", "revealMore",
                 "resetImage", "pauseGame", "resumeGame", "endGame"}

\* one call of an action of the store
CallStoreAction ==
    /\ call.called
    /\ call.fn = "useGameStore"
    /\ \E action \in StoreActions, index \in -1..MaxGameImages, total \in 0..MaxGameImages :
        call' = [call EXCEPT !.store = StoreAfter(call.store, action, index, total),
                             !.action = action,
                             !.before = call.store]
    /\ UNCHANGED <<retryVars, regen, loadVars, uploadVars, playVars>>

StoreNext == CallStoreAction

SpecStoreInit == RetryInit /\ regen = NoCall /\ LoadIdle /\ call = NoAction /\ UploadIdle /\ PlayIdle

SpecStore == SpecStoreInit /\ [][StoreNext]_vars

(***************************************************************************)
(* handleFileUpload: uploadImages, the onImageProcessed callbacks it starts *)
(* without awaiting them, and the reload by loadCategories                 *)
(***************************************************************************)
UploadedIds == 1..MaxFiles

NoAdd == [pc |-> "none", level |-> 1, imageIds |-> {}]

\* the store (images, the selected category's imageIds), the database (the
\* category's imageIds, the image records, the blobs), one addImageToCategory
\* per processed image, and handleFileUpload's position
NoHandle == [called |-> TRUE, fn |-> "handleFileUpload",
             mem |-> [images |-> {}, imageIds |-> {}],
             db |-> [imageIds |-> {}, images |-> {}, blobs |-> {}],
             adds |-> [id \in UploadedIds |-> NoAdd],
             pc |-> "idle", total |-> 0, i |-> 1, successful |-> {},
             atReturn |-> {}, partialRead |-> FALSE, faults |-> 0]

\* every level of the image is in the blobs store
AllBlobs(db, id) == \A level \in requiredLevels : <<id, level>> \in db.blobs

\* handleFileUpload with total valid files
StartHandleFileUpload ==
    /\ call.called
    /\ call.fn = "handleFileUpload"
    /\ call.pc = "idle"
    /\ \E total \in 1..MaxFiles : call' = [call EXCEPT !.pc = "loop", !.total = total]
    /\ UNCHANGED <<retryVars, regen, loadVars, uploadVars, playVars>>

\* addImageToCategory up to its first await: the image and its id are pushed
\* and saveCategory has issued its put of the category as it is now
AddStarted(c, id) ==
    LET ids == c.mem.imageIds \cup {id}
    IN  [c EXCEPT !.mem = [images |-> c.mem.images \cup {id}, imageIds |-> ids],
                  !.adds[id] = [pc |-> "saveCategory", level |-> 1, imageIds |-> ids]]

\* one round of uploadImages' loop: processImage settles; on success the
\* image is pushed to successful and onImageProcessed is called, its promise
\* dropped; after the last file uploadImages returns
ProcessFile ==
    /\ call.called
    /\ call.fn = "handleFileUpload"
    /\ call.pc = "loop"
    /\ \E success \in BOOLEAN :
        LET c1 == IF success
                  THEN [AddStarted(call, call.i) EXCEPT !.successful = @ \cup {call.i}]
                  ELSE call
        IN  call' = IF call.i < call.total
                    THEN [c1 EXCEPT !.i = @ + 1]
                    ELSE [c1 EXCEPT !.pc = "returned",
                                    !.atReturn = {id \in c1.successful : c1.adds[id].pc = "done"}]
    /\ UNCHANGED <<retryVars, regen, loadVars, uploadVars, playVars>>

\* a put of addImageToCategory completes: the category (puts on one store
\* complete in the order they were issued), then saveImage's image record,
\* then its blobs level1 to level4
AddPutSucceeds ==
    /\ call.called
    /\ call.fn = "handleFileUpload"
    /\ \E id \in UploadedIds :
        LET add == call.adds[id]
        IN  \/ /\ add.pc = "saveCategory"
               /\ \A other \in UploadedIds :
                    other < id => call.adds[other].pc # "saveCategory"
               /\ call' = [call EXCEPT !.db.imageIds = add.imageIds,
                                       !.adds[id].pc = "metadata"]
            \/ /\ add.pc = "metadata"
               /\ call' = [call EXCEPT !.db.images = @ \cup {id},
                                       !.adds[id].pc = "blobs"]
            \/ /\ add.pc = "blobs"
               /\ call' = [call EXCEPT !.db.blobs = @ \cup {<<id, add.level>>},
                                       !.adds[id].level = @ + 1,
                                       !.adds[id].pc = IF add.level = 4 THEN "done" ELSE "blobs"]
    /\ UNCHANGED <<retryVars, regen, loadVars, uploadVars, playVars>>

\* a put is rejected (request.onerror): saveCategory or saveImage rejects and
\* addImageToCategory rethrows from its catch
AddPutFails ==
    /\ call.called
    /\ call.fn = "handleFileUpload"
    /\ call.faults < MaxWriteFaults
    /\ \E id \in UploadedIds :
        /\ call.adds[id].pc \in {"saveCategory", "metadata", "blobs"}
        /\ call' = [call EXCEPT !.adds[id].pc = "failed", !.faults = @ + 1]
    /\ UNCHANGED <<retryVars, regen, loadVars, uploadVars, playVars>>

\* handleFileUpload after uploadImages has returned: loadCategories is
\* called when an image succeeded
StartReload ==
    /\ call.called
    /\ call.fn = "handleFileUpload"
    /\ call.pc = "returned"
    /\ call' = [call EXCEPT !.pc = IF call.successful # {} THEN "reload" ELSE "finished"]
    /\ UNCHANGED <<retryVars, regen, loadVars, uploadVars, playVars>>

\* loadCategories reads the database and replaces the store: an image
\* without level4 is excluded, and the category keeps the ids of the
\* validatedImages images
Reload ==
    /\ call.called
    /\ call.fn = "handleFileUpload"
    /\ call.pc = "reload"
    /\ LET validatedImages == {id \in call.db.images : AllBlobs(call.db, id)}
       IN  call' = [call EXCEPT
                        !.mem = [images |-> validatedImages,
                                 imageIds |-> call.db.imageIds \cap validatedImages],
                        !.partialRead = (validatedImages # call.db.images),
                        !.pc = "finished"]
    /\ UNCHANGED <<retryVars, regen, loadVars, uploadVars, playVars>>

HandleNext ==
    \/ StartHandleFileUpload
    \/ ProcessFile
    \/ AddPutSucceeds
    \/ AddPutFails
    \/ StartReload
    \/ Reload

SpecHandleInit == RetryInit /\ regen = NoCall /\ LoadIdle /\ call = NoHandle /\ UploadIdle /\ PlayIdle

SpecHandle == SpecHandleInit /\ [][HandleNext]_vars

(***************************************************************************)
(* DatabaseService.exportData, then importData of what it returned         *)
(***************************************************************************)
\* a blob record is modelled by its bytes, <<>> where there is no record
BlobSeeds == {<<97>>, <<0, 255>>, <<255, 0, 97>>}

\* saveImage puts level1 to level4 in this order and stops at a rejected
\* put: an image record has all its blobs or the first ones only
StoredLevels == {[k \in requiredLevels |-> IF k <= n THEN Append(seed, k) ELSE <<>>] :
                    seed \in BlobSeeds, n \in {1, 4}}

NoLevelRecords == [k \in requiredLevels |-> <<>>]

\* one category with its imageIds, the image records, their blobs
StoredDatabases ==
    {[imageIds |-> ids, images |-> recs,
      blobs |-> [id \in Images |-> IF id \in recs THEN l[id] ELSE NoLevelRecords]] :
        ids \in SUBSET Images, recs \in SUBSET Images, l \in [Images -> StoredLevels]}

\* blobToBase64 of DatabaseService
DatabaseBlobToBase64(bytes) == AfterComma([comma |-> TRUE, text |-> Base64From(bytes, 1)])

\* exportData: the categories, the image records, and the base64 text of
\* every blob that has bytes (no key, here <<>>, for the others)
exportData(db) ==
    [version |-> "1.0.0", imageIds |-> db.imageIds, images |-> KeyOrder(db.images),
     blobs |-> [id \in Images |-> [k \in requiredLevels |->
                    IF id \in db.images /\ Len(db.blobs[id][k]) > 0
                    THEN DatabaseBlobToBase64(db.blobs[id][k])
                    ELSE <<>>]]]

\* the levels importData builds for an image: base64ToBlob of each key that
\* is there, null (here <<>>) for a missing one
ImportedLevels(data, id) ==
    [k \in requiredLevels |->
        IF data.blobs[id][k] # <<>> THEN DatabaseBase64ToBlob(data.blobs[id][k]).bytes
        ELSE <<>>]

\* the loop over data.images from position i on: saveImage, which rejects an
\* image with a level without bytes; the rejection is logged and passed over
RECURSIVE ImportImagesFrom(_, _, _)
ImportImagesFrom(db, data, i) ==
    IF i > Len(data.images) THEN db
    ELSE LET id == data.images[i]
             levels == ImportedLevels(data, id)
         IN  IF \A k \in requiredLevels : Len(levels[k]) > 0
             THEN ImportImagesFrom([db EXCEPT !.images = @ \cup {id}, !.blobs[id] = levels],
                                   data, i + 1)
             ELSE ImportImagesFrom(db, data, i + 1)

\* importData of a backup with the expected structure: clearAllData, the
\* categories as they are in the backup, then the images
importData(data) ==
    ImportImagesFrom([imageIds |-> data.imageIds, images |-> {},
                      blobs |-> [id \in Images |-> NoLevelRecords]], data, 1)

CallExportData ==
    /\ call = NoCall
    /\ \E db \in StoredDatabases :
        call' = [called |-> TRUE, fn |-> "exportData", before |-> db,
                 data |-> exportData(db), db |-> db, pcx |-> "exported"]
    /\ UNCHANGED <<retryVars, regen, loadVars, uploadVars, playVars>>

CallImportData ==
    /\ call.called
    /\ call.fn = "exportData"
    /\ call.pcx = "exported"
    /\ call' = [call EXCEPT !.db = importData(call.data), !.pcx = "imported"]
    /\ UNCHANGED <<retryVars, regen, loadVars, uploadVars, playVars>>

RoundTripNext ==
    \/ CallExportData
    \/ CallImportData

SpecRoundTripInit == RetryInit /\ regen = NoCall /\ LoadIdle /\ call = NoCall /\ UploadIdle /\ PlayIdle

SpecRoundTrip == SpecRoundTripInit /\ [][RoundTripNext]_vars

(***************************************************************************)
(* The settings store: the three pixelation block sizes                    *)
(***************************************************************************)
\* a number is whole, or whole + 0.5 when half; a key that a JSON text or
\* an update does not have (or has with a value that is no number) is Absent
Number(whole, half) == [present |-> TRUE, whole |-> whole, half |-> half]

Absent == [present |-> FALSE, whole |-> 0, half |-> FALSE]

AtLeast(a, b) == a.whole > b.whole \/ (a.whole = b.whole /\ (a.half \/ ~ b.half))

IsInteger(a) == ~ a.half

PixelationKeys == {"pixelationLevel1", "pixelationLevel2", "pixelationLevel3"}

DEFAULT_SETTINGS ==
    [pixelationLevel1 |-> Number(64, FALSE), pixelationLevel2 |-> Number(32, FALSE),
     pixelationLevel3 |-> Number(16, FALSE)]

\* the values written into a field, passed to an update or found in a JSON
\* text: below, at, inside and above the range 4..128, and 16.5
SettingValues == {Number(3, FALSE), Number(4, FALSE), Number(16, TRUE), Number(64, FALSE),
                  Number(129, FALSE)}

PartialSettings == [PixelationKeys -> SettingValues \cup {Absent}]

\* Object.assign(settings, updates)
Assign(settings, updates) ==
    [key \in PixelationKeys |-> IF updates[key].present THEN updates[key] ELSE settings[key]]

\* the checks of importSettings on one pixelation level
ValidLevel(v) ==
    /\ v.present
    /\ AtLeast(v, Number(4, FALSE))
    /\ AtLeast(Number(128, FALSE), v)
    /\ IsInteger(v)

validSettings(importedSettings) ==
    [key \in PixelationKeys |->
        IF ValidLevel(importedSettings[key]) THEN importedSettings[key] ELSE Absent]

NoSettings == [called |-> TRUE, fn |-> "useSettingsStore", settings |-> DEFAULT_SETTINGS,
               stored |-> [item |-> FALSE, settings |-> DEFAULT_SETTINGS], action |-> "none"]

\* saveSettings: localStorage.setItem
Saved(c, settings, action) ==
    [c EXCEPT !.settings = settings, !.stored = [item |-> TRUE, settings |-> settings],
              !.action = action]

loadSettings ==
    /\ call.called
    /\ call.fn = "useSettingsStore"
    /\ call' = [call EXCEPT
                    !.settings = IF call.stored.item
                                 THEN Assign(DEFAULT_SETTINGS, call.stored.settings)
                                 ELSE @,
                    !.action = "loadSettings"]
    /\ UNCHANGED <<retryVars, regen, loadVars, uploadVars, playVars>>

updateSetting ==
    /\ call.called
    /\ call.fn = "useSettingsStore"
    /\ \E key \in PixelationKeys, value \in SettingValues :
        call' = Saved(call, [call.settings EXCEPT ![key] = value], "updateSetting")
    /\ UNCHANGED <<retryVars, regen, loadVars, uploadVars, playVars>>

updateSettings ==
    /\ call.called
    /\ call.fn = "useSettingsStore"
    /\ \E updates \in PartialSettings :
        call' = Saved(call, Assign(call.settings, updates), "updateSettings")
    /\ UNCHANGED <<retryVars, regen, loadVars, uploadVars, playVars>>

resetSettings ==
    /\ call.called
    /\ call.fn = "useSettingsStore"
    /\ call' = Saved(call, DEFAULT_SETTINGS, "resetSettings")
    /\ UNCHANGED <<retryVars, regen, loadVars, uploadVars, playVars>>

importSettings ==
    /\ call.called
    /\ call.fn = "useSettingsStore"
    /\ \E importedSettings \in PartialSettings :
        call' = Saved(call, Assign(call.settings, validSettings(importedSettings)),
                      "importSettings")
    /\ UNCHANGED <<retryVars, regen, loadVars, uploadVars, playVars>>

SettingsNext ==
    \/ loadSettings
    \/ updateSetting
    \/ updateSettings
    \/ resetSettings
    \/ importSettings

SpecSettingsInit == RetryInit /\ regen = NoCall /\ LoadIdle /\ call = NoSettings /\ UploadIdle /\ PlayIdle

SpecSettings == SpecSettingsInit /\ [][SettingsNext]_vars

Spec == SpecRetry

(***************************************************************************)
(* Properties of the retry wrapper                                         *)
(***************************************************************************)
RegularAttempts == SelectSeq(events, LAMBDA e : e.ev = "attempt" /\ ~ e.final)
FinalAttempts == SelectSeq(events, LAMBDA e : e.ev = "attempt" /\ e.final)
Finished == pc \in {"returned", "thrown"}

C6_Safety ==
    /\ Len(Attempts(events)) <= 7
    /\ (Finished /\ \A i \in 1..Len(RegularAttempts) : ~ RegularAttempts[i].ok) =>
        /\ Len(FinalAttempts) = 1
        /\ FinalAttempts[1].quality = 60
        /\ events[Len(events)] = FinalAttempts[1]
        /\ (pc = "thrown") <=> ~ FinalAttempts[1].ok

C6_OneLastResortThenStop == [] C6_Safety /\ ((pc = "attempt") ~> Finished)

C6_Witness == pc = "thrown" /\ reqQuality = 10 /\ Len(FinalAttempts) = 1

\* C7 as stated: every attempt from the 3rd onward runs with a quality lower
\* than the caller's, and no attempt runs below 0.6.
C7_ReducedFromThirdAttempt ==
    \A i \in 1..Len(Attempts(events)) :
        /\ i >= 3 => Attempts(events)[i].quality < reqQuality
        /\ Attempts(events)[i].quality >= 60

\* what the code of C7 does: attempts 1 to 3 run with the caller's quality; every attempt
\* from the 4th onward runs with a quality that is at least 0.6, is lower than
\* the caller's when the caller asked for more than 0.7, and is 0.7 (0.6 for
\* the last resort) when the caller asked for 0.7 or less.
C7_ReducedFromFourthAttempt ==
    \A i \in 1..Len(Attempts(events)) :
        LET a == Attempts(events)[i]
        IN  /\ i <= 3 => a.quality = reqQuality
            /\ i >= 4 => /\ a.quality >= 60
                         /\ reqQuality > 70 => a.quality < reqQuality
                         /\ reqQuality <= 70 => a.quality = (IF a.final THEN 60 ELSE 70)

C7_Witness ==
    /\ Len(Attempts(events)) >= 4
    /\ reqQuality = 90
    /\ Attempts(events)[3].quality = 90
    /\ Attempts(events)[4].quality = 80

\* C8: within one call the wait before a retry is never shorter than the wait
\* before an earlier retry.
C8_BackoffNonDecreasing ==
    \A i, j \in 1..Len(Waits(events)) :
        i <= j => Waits(events)[i].delay <= Waits(events)[j].delay

C8_Witness == Len(Waits(events)) = 5 /\ Waits(events)[5].delay = 5000

\* C9: a call that returns, on any path, returns a level set the validator
\* accepts; a generator run that gave back an incomplete set is a failed
\* attempt.
C9_ReturnedLevelsAreValid ==
    /\ pc = "returned" => validatePixelationLevels(result)
    /\ \A i \in 1..Len(RegularAttempts) :
        (RegularAttempts[i].ok /\ RegularAttempts[i].sizes = pixelSizes)
            => Len(pixelSizes) >= 4

\* the generator gave back an incomplete set several times and the call still
\* returned, through the last resort
C9_Witness ==
    /\ pc = "returned"
    /\ Len(pixelSizes) = 3
    /\ Len(FinalAttempts) = 1

\* C10: whenever the level generator returns, level1 to level4 are all
\* present and non-empty, whatever block-size list it was given.
C10_GeneratorReturnsAllFour ==
    (internal # NoRun /\ ~ internal.threw) => validatePixelationLevels(internal.levels)

(***************************************************************************)
(* Properties of regeneratePixelationLevels                                *)
(***************************************************************************)
Usable(b) == b # Null /\ b.size > 0

\* C2: the source is level4 when level4 is present and non-empty and the
\* supplied originalBlob otherwise; with an empty level4 and a non-empty
\* originalBlob the call goes on from originalBlob.
C2_SourceIsLevel4ElseOriginal ==
    regen.called =>
        LET l4 == regen.existingLevels[4]
        IN  /\ Usable(l4) => regen.out.source = l4
            /\ (~ Usable(l4) /\ Usable(regen.originalBlob)) =>
                    regen.out.source = regen.originalBlob

\* C3: with no usable level4 and no usable originalBlob the call throws and
\* the generator is never run, whatever levels 1 to 3 hold.
C3_NoSourceAlwaysThrows ==
    (regen.called /\ ~ Usable(regen.existingLevels[4]) /\ ~ Usable(regen.originalBlob)) =>
        /\ regen.out.threw
        /\ regen.out.runs = 0
        /\ regen.out.source = Null

C3_Witness ==
    /\ regen.called
    /\ regen.existingLevels[4] = StoredBlob(4, 0)
    /\ regen.originalBlob = Null
    /\ \A k \in 1..3 : Usable(regen.existingLevels[k])
    /\ regen.out.threw

\* C1: on the load path the source regeneratePixelationLevels decodes is a
\* level-4 artifact or an unpixelated original (block size 0), never an
\* artifact of level 1, 2 or 3
C1_SourceIsNeverLevel1To3 == \A e \in regenLog : e.source.px = 0

\* a persisted record with an empty level-4 blob and usable levels 1-3
EmptyLevel4Record(i) ==
    /\ db0[i][4] = StoredBlob(4, 0)
    /\ \A k \in 1..3 : Usable(db0[i][k])

\* C4: a record persisted with an empty level-4 blob and usable levels 1-3
\* is never regenerated and is not in the store's images after the load
C4_EmptyLevel4NotRegeneratedNotPlayable ==
    \A i \in Images :
        EmptyLevel4Record(i) =>
            /\ \A e \in regenLog : e.image # i
            /\ \A r \in images : r.id # i

(***************************************************************************)
(* Properties of validatePixelationLevels                                  *)
(***************************************************************************)

C12_IncompleteRecordRejectedUnwritten ==
    (call # NoCall /\ call.fn = "saveImage"
        /\ \E k \in requiredLevels :
            Level(call.levels, k) = Null \/ Level(call.levels, k).size = 0) =>
        /\ call.threw
        /\ dbMeta = call.meta
        /\ dbBlobs = call.blobs
        /\ saves = {}

\* a new record whose level2 is empty was refused
C12_Witness ==
    /\ call # NoCall
    /\ call.fn = "saveImage"
    /\ call.id \notin call.meta
    /\ DOMAIN call.levels = 1..4
    /\ call.levels[2] # Null
    /\ call.levels[2].size = 0
    /\ \A k \in {1, 3, 4} : Usable(call.levels[k])
    /\ call.threw

(***************************************************************************)
(* Properties of the load path                                             *)
(***************************************************************************)
\* loadCategories has run to its end
LoadCompleted == lpc = "idle" /\ loads > 0 /\ lmode = "load"

\* C13: every image in the store's images has level1 to level4 present and
\* non-empty, whatever was persisted and however regenerations and
\* write-backs ended.
C13_LoadedImagesAreComplete ==
    \A r \in images : \A k \in requiredLevels :
        /\ k \in DOMAIN r.pixelationLevels
        /\ r.pixelationLevels[k] # Null
        /\ r.pixelationLevels[k].size > 0

\* a load has completed with a record repaired by the sweep in the store,
\* next to the record that was persisted complete
C13_Witness ==
    /\ LoadCompleted
    /\ \E r \in images : \E e \in regenLog : e.image = r.id /\ e.by = "load"
    /\ Cardinality(images) = NumImages

\* the ids of the records in the store's images
ImageIds == {r.id : r \in images}

\* C14: a record the load left out of the store's images is in persistence
\* what it was when loadCategories was entered: its metadata record is still
\* there and none of its blob records was written.
C14_ExcludedRecordUntouched ==
    LoadCompleted =>
        \A i \in dbAtLoad.meta :
            i \notin ImageIds => (i \in dbMeta /\ dbBlobs[i] = dbAtLoad.blobs[i])

\* the levels of the record come from a regeneration of the load path
Repaired(r) == \E k \in requiredLevels : r.pixelationLevels[k].gen > 0

\* C15: a repaired record is in the store's images only once the saveImage
\* of its regenerated levels has completed: no put of it is in flight and
\* the blob records hold exactly those levels.
C15_RepairedRecordWrittenBackBeforeUse ==
    \A r \in images :
        Repaired(r) =>
            /\ \A s \in saves : s.id # r.id
            /\ r.id \in dbMeta
            /\ dbBlobs[r.id] = r.pixelationLevels

\* the regenerations and saveImage calls of image i that are in flight
InFlight(i) ==
    Cardinality({s \in saves : s.id = i})
        + (IF i \in DOMAIN tasks /\ tasks[i].pc = "regen" THEN 1 ELSE 0)
        + (IF lpc = "regen" /\ cur.id = i THEN 1 ELSE 0)

\* C17: at any time at most one regeneration or saveImage of one image id is
\* in flight.
C17_OnePipelinePerImage == \A i \in Images : InFlight(i) <= 1

(***************************************************************************)
(* Properties of processImage and of the multi-file runs                   *)
(***************************************************************************)
\* a processImage call that has started and not yet settled
Running(p) == p.pc \in {"load", "resize", "levels"}

DecodeSteps == {"loadImageFromFile", "resizeImage", "createPixelationLevels"}

StepsOf(p) == {p.steps[k] : k \in DOMAIN p.steps}

C18_RejectedBeforeAnyDecode ==
    \A i \in DOMAIN pipes :
        (pipes[i].pc # "none"
            /\ (files[i].type \notin validTypes \/ files[i].size > MaxFileBytes)) =>
            /\ pipes[i].pc = "settled"
            /\ ~ pipes[i].result.success
            /\ StepsOf(pipes[i]) \cap DecodeSteps = {}
            /\ pipes[i].steps[1] = "isValidImageType"
            /\ files[i].type \notin validTypes => pipes[i].steps = <<"isValidImageType">>

\* a file of an allowed type with one byte too many, and a file that is no
\* image and too large as well, were both rejected
C18_Witness ==
    /\ Len(files) = 2
    /\ files[1] = [type |-> "image/jpeg", size |-> MaxFileBytes + 1]
    /\ files[2] = [type |-> "text/plain", size |-> MaxFileBytes + 1]
    /\ pipes[1].pc = "settled"
    /\ pipes[2].pc = "settled"

\* C19: a processImage call that has settled did not throw and gave back
\* either success with a record whose four levels the validator accepts and
\* no error, or failure with a non-empty reason and no record.
C19_ProcessImageDoneOrFailed ==
    \A i \in DOMAIN pipes :
        pipes[i].pc = "settled" =>
            LET r == pipes[i].result
            IN  /\ r # Null
                /\ ~ r.threw
                /\ r.success =>
                    /\ r.processedImage # Null
                    /\ validatePixelationLevels(r.processedImage.pixelationLevels)
                    /\ r.error = Null
                /\ ~ r.success =>
                    /\ r.processedImage = Null
                    /\ r.error # Null
                    /\ r.error.message # ""

\* one file ended Done and the other Failed in the generation step
C19_Witness ==
    /\ Len(files) = 2
    /\ pipes[1].pc = "settled"
    /\ pipes[1].result.success
    /\ pipes[2].pc = "settled"
    /\ ~ pipes[2].result.success
    /\ "createPixelationLevels" \in StepsOf(pipes[2])

\* how often x is in the list
Count(x, list) == Len(SelectSeq(list, LAMBDA y : y = x))

OnErrorCalls == SelectSeq(cbLog, LAMBDA c : c.cb = "onError")

\* C20: in uploadImages no file is in more than one of the lists successful
\* and failed nor twice in one, a failed file is in uploadErrors once and was
\* reported through onError once, and when the run is over every file went
\* through processImage and is in exactly one list.
C20_UploadPartitionsFiles ==
    up.name = "uploadImages" =>
        \A i \in DOMAIN files :
            /\ Count(i, up.successful) + Count(i, up.failed) <= 1
            /\ Count(i, uploadErrors) = Count(i, up.failed)
            /\ Len(SelectSeq(OnErrorCalls, LAMBDA c : c.file = i)) = Count(i, up.failed)
            /\ up.pc \in {"returned", "thrown"} =>
                /\ pipes[i].pc = "settled"
                /\ Count(i, up.successful) + Count(i, up.failed) = 1

\* the formats the rejection message of processImage and the README name
\* (JPG, PNG, GIF, WebP)
SupportedTypes == {"image/jpeg", "image/jpg", "image/png", "image/gif", "image/webp"}

\* C21: processImage lets a file through its two checks exactly when its
\* type is JPEG, PNG, GIF or WebP and its size is at most 10 MB; every other
\* file gets a Failed result.
C21_AcceptedIffAllowListedAndSmall ==
    \A i \in DOMAIN pipes :
        pipes[i].pc # "none" =>
            LET accepted == "loadImageFromFile" \in StepsOf(pipes[i])
                allowed == files[i].type \in SupportedTypes /\ files[i].size <= MaxFileBytes
            IN  /\ accepted <=> allowed
                /\ (~ allowed /\ pipes[i].pc = "settled") => ~ pipes[i].result.success

(***************************************************************************)
(* Properties of resizeImage                                               *)
(***************************************************************************)
\* C22: resizeImage gives width maxWidth and height round(height * maxWidth
\* / width) when the native width is above maxWidth, width minWidth and
\* height round(height * minWidth / width) when it is below minWidth, the
\* native size otherwise; and the height it gives is a positive integer for
\* every native height of at least 1.
C22_ResizedDimensions ==
    call.called =>
        LET d == call.out.dimensions
        IN  /\ call.width > call.maxWidth =>
                /\ d.width = call.maxWidth
                /\ d.height = Round(call.height * call.maxWidth, call.width)
            /\ (call.width <= call.maxWidth /\ call.width < call.minWidth) =>
                /\ d.width = call.minWidth
                /\ d.height = Round(call.height * call.minWidth, call.width)
            /\ (call.width <= call.maxWidth /\ call.width >= call.minWidth) =>
                d = [width |-> call.width, height |-> call.height]
            /\ d.height >= 1

(***************************************************************************)
(* Properties of createPixelatedImage                                      *)
(***************************************************************************)
\* the call went through the two loops and put the pixels back
Pixelated == call.called /\ call.fn = "createPixelatedImage" /\ call.encoder # "none"

\* the pixels in the same blockSize x blockSize cell of the grid as pixel i
SameBlock(i, width, n, blockSize) ==
    {j \in 0..(n - 1) :
        /\ (j % width) \div blockSize = (i % width) \div blockSize
        /\ (j \div width) \div blockSize = (i \div width) \div blockSize}

\* m is the integer nearest to sum / count
NearestToMean(m, sum, count) ==
    /\ 2 * (m * count - sum) <= count
    /\ 2 * (sum - m * count) <= count

\* C23: after the transform every pixel holds, in each of R, G, B, A, the
\* mean of that channel over the original pixels of its block (blocks of
\* blockSize x blockSize from the top left corner, clipped at the right and
\* bottom edges) rounded to the nearest integer; an image that is uniform on
\* every block is left as it was.
C23_BlockMeans ==
    Pixelated =>
        LET n == call.width * call.height
            block(i) == SameBlock(i, call.width, n, call.pixelSize)
        IN  /\ DOMAIN call.canvas = DOMAIN call.data
            /\ \A i \in DOMAIN call.data : \A c \in 1..4 :
                NearestToMean(call.canvas[i][c], SumChannel(call.data, block(i), c),
                              Cardinality(block(i)))
            /\ (\A i \in DOMAIN call.data : \A j \in block(i) : call.data[j] = call.data[i])
                => call.canvas = call.data

\* a 3 x 2 image cut into a full and a clipped block of size 2, where the
\* full block mixes both colours
C23_Witness ==
    /\ Pixelated
    /\ call.width = 3
    /\ call.height = 2
    /\ call.pixelSize = 2
    /\ call.data[0] # call.data[1]
    /\ call.canvas # call.data
    /\ call.canvas[0] = call.canvas[4]

\* C24: a call of createPixelatedImage settles, once: it resolves with a
\* non-empty blob or rejects with an error, whatever block size it is given
\* and whatever the encoder does, and what arrives after the timeout changes
\* nothing.
C24_Safety ==
    (call.called /\ call.fn = "createPixelatedImage") =>
        /\ call.settles <= 1
        /\ call.outcome = "resolved" => call.blobSize > 0
        /\ call.outcome = "rejected" => call.error # ""
        /\ call.late > 0 => (call.outcome = "rejected" /\ call.timer = "fired")

C24_SettlesExactlyOnce ==
    /\ [] C24_Safety
    /\ (call.called /\ call.fn = "createPixelatedImage")
            ~> (call.called /\ call.outcome # "none")

(***************************************************************************)
(* Properties of the level generator on pixels                             *)
(***************************************************************************)
Generating == call.called /\ call.fn = "createPixelationLevelsInternal"

\* what level k is when it is made from the original surface alone
LevelFromOriginal(k) ==
    IF call.sizes[k] = 0 THEN call.original
    ELSE Pixelate(call.original, call.width, call.height, call.sizes[k])

\* C25: the generator goes through the block-size list in order, list index
\* i giving level i+1, each level made on a copy of the shared surface: the
\* shared surface is as it was during and after the call, whether it returns
\* or throws, and each level is what the original surface and its own block
\* size give, whatever was done for the levels before it.
C25_LevelsFromIndependentCopies ==
    Generating =>
        /\ call.canvases["shared"] = call.original
        /\ DOMAIN call.levels \subseteq 1..Len(call.sizes)
        /\ \A k \in DOMAIN call.levels : call.levels[k].content = LevelFromOriginal(k)
        /\ call.outcome = "returned" => DOMAIN call.levels = 1..Len(call.sizes)

\* a three-level list whose first two levels blur the surface differently
\* and whose last level is the surface itself
C25_Witness ==
    /\ Generating
    /\ call.outcome = "returned"
    /\ call.sizes = <<MaxBlockSize, 2, 0>>
    /\ call.levels[1].content # call.levels[2].content
    /\ call.levels[2].content # call.original
    /\ call.levels[3].content = call.original

(***************************************************************************)
(* Generations of the levels of one record                                 *)
(***************************************************************************)
\* the blobs that are there all carry the mark of one generator run
SameRun(levels) ==
    \A j \in DOMAIN levels : \A k \in DOMAIN levels :
        (levels[j] # Null /\ levels[k] # Null) => levels[j].gen = levels[k].gen

\* C26: the levels held for one image all come from the same generation
\* run, in the store's images and in the blob records of persistence, in
\* every state, also when a saveImage of regenerated levels stops after some
\* of its four blob puts.
C26_NoMixOfStaleAndFresh ==
    /\ \A r \in images : SameRun(r.pixelationLevels)
    /\ \A i \in dbMeta : SameRun(dbBlobs[i])

(***************************************************************************)
(* Properties of the base64 conversions                                    *)
(***************************************************************************)
\* C27: base64ToBlob(blobToBase64(b)) has exactly the bytes of b, for byte
\* sequences of every length, in ImageProcessingService and in
\* DatabaseService.
C27_Base64RoundTrip ==
    (call.called /\ call.fn = "base64") =>
        /\ ~ call.out.threw
        /\ call.out.bytes = call.bytes

(***************************************************************************)
(* Properties of importData                                                *)
(***************************************************************************)
\* C28: when importData has completed, every category and every image that
\* was persisted before the import is still persisted: the import adds to
\* what is there.
C28_ImportKeepsExistingData ==
    (call.called /\ call.fn = "importData" /\ call.pcx = "done") =>
        /\ call.before.categories \subseteq call.db.categories
        /\ call.before.images \subseteq call.db.images
        /\ call.before.blobs \subseteq call.db.blobs

(***************************************************************************)
(* Properties of the keyboard handling of GamePlay                         *)
(***************************************************************************)
\* one step forward: a level more, else the next image at level 1, else
\* nothing
OneStep(g) ==
    IF g.currentPixelationLevel < 4
    THEN [g EXCEPT !.currentPixelationLevel = @ + 1]
    ELSE IF g.currentImageIndex + 1 < g.total
    THEN [g EXCEPT !.currentImageIndex = @ + 1, !.currentPixelationLevel = 1]
    ELSE g

\* how many single steps the game is away from its start
StepsDone(g) == 4 * g.currentImageIndex + g.currentPixelationLevel - 1

\* C29: a press of the right arrow or of Space does exactly one step while
\* the mode is 'playing' and nothing in any other mode; a game of n images in
\* which only these keys were pressed is, after p presses, p steps from its
\* start, and at the last image at level 4 from press 4n-1 on.
C29_OneStepPerKeyPress ==
    /\ (play.last # NoPress /\ play.last.key \in ForwardKeys) =>
            play.last.after = IF play.last.before.gameMode = "playing"
                              THEN OneStep(play.last.before)
                              ELSE play.last.before
    /\ (game.gameMode = "playing" /\ play.onlyForward) =>
            StepsDone(game) = IF play.presses < 4 * game.total - 1
                              THEN play.presses
                              ELSE 4 * game.total - 1

(***************************************************************************)
(* Recovery of createPixelationLevels from transient failures              *)
(***************************************************************************)
\* the first n runs of the generator failed
FirstFailed(n) ==
    /\ Len(Attempts(events)) >= n
    /\ \A j \in 1..n : ~ Attempts(events)[j].ok

\* C30: when the first k runs of the generator fail (k <= 4) the wrapper
\* runs it again, and when run k+1 gives four non-empty levels the call
\* returns those levels after exactly k+1 runs; 4 failures and a success are
\* 5 attempts.
C30_SuccessAfterTransientFailures ==
    \A k \in 0..4 :
        /\ (pc # "idle" /\ FirstFailed(k) /\ Len(Attempts(events)) = k) =>
                pc \in {"attempt", "cleanup", "wait"}
        /\ (FirstFailed(k) /\ Len(Attempts(events)) > k /\ Attempts(events)[k + 1].ok) =>
                /\ Len(Attempts(events)) = k + 1
                /\ ~ Attempts(events)[k + 1].final
                /\ pc = "returned"
                /\ result = internal.levels
                /\ validatePixelationLevels(result)

\* four failed runs, then the fifth gives the levels the call returns
C30_Witness ==
    /\ pc = "returned"
    /\ FirstFailed(4)
    /\ Len(Attempts(events)) = 5
    /\ Attempts(events)[5].ok

(***************************************************************************)
(* Order, quality and block sizes of the attempts of one call              *)
(***************************************************************************)
\* positions in events of the attempts
AttemptPositions == {j \in DOMAIN events : events[j].ev = "attempt"}

\* C32: every attempt after the first, the last-resort attempt included, has
\* between it and the failed attempt before it exactly one memory cleanup
\* and then one backoff wait.
C32_CleanupAndWaitBeforeEveryRetry ==
    \A j \in AttemptPositions :
        (\E i \in AttemptPositions : i < j) =>
            /\ j >= 4
            /\ events[j - 3].ev = "attempt"
            /\ ~ events[j - 3].ok
            /\ events[j - 2].ev = "cleanup"
            /\ events[j - 1].ev = "wait"

\* C34: the qualities given to the generator never go up from one attempt
\* of a call to the next and none is above the quality the caller asked for.
C34_QualityNeverRises ==
    LET as == Attempts(events)
    IN  \A j \in DOMAIN as :
            /\ as[j].quality <= reqQuality
            /\ j > 1 => as[j].quality <= as[j - 1].quality

\* C35: the levels a call returns were generated with the block-size list
\* the caller passed, whichever attempt gave them.
C35_ReturnedLevelsUseCallerSizes ==
    pc = "returned" =>
        LET as == Attempts(events)
        IN  /\ as[Len(as)].ok
            /\ as[Len(as)].sizes = pixelSizes

(***************************************************************************)
(* Properties of the isUploading guard                                     *)
(***************************************************************************)
\* C36: on one useImageUpload instance at most one run of uploadImages is
\* active at a time, a call made while a run is active is rejected, and
\* isUploading is false when no run is active, whatever uploadImages,
\* clearErrors and reset calls were made.
C36_AtMostOneRunActive ==
    (call.called /\ call.fn = "useImageUpload") =>
        /\ call.active <= 1
        /\ (call.last = "accepted") => call.activeAtLast = 0
        /\ call.active = 0 => ~ isUploading

\* the file is in the list
InList(i, list) == \E k \in DOMAIN list : list[k] = i

\* C38: validateFiles puts a file under valid exactly when processImage does
\* not reject it for its type or its size, and every file is under valid or
\* under invalid.
C38_ValidateFilesAgreesWithProcessImage ==
    (call.called /\ call.fn = "useImageUpload") =>
        \A i \in DOMAIN call.checked.files :
            /\ InList(i, call.checked.valid)
                <=> StartProcessImage(call.checked.files[i]).pc # "settled"
            /\ InList(i, call.checked.valid)
                <=> ~ \E k \in DOMAIN call.checked.invalid : call.checked.invalid[k].file = i

\* C39: after any sequence of actions of the game store the level is in 1..4,
\* the index is within the images whenever there are images, an action that
\* changed the current image left the level at 1, and the mode is playing
\* only while a category with at least one image is loaded.
C39_GameStoreInvariant ==
    (call.called /\ call.fn = "useGameStore") =>
        /\ call.store.currentPixelationLevel \in 1..4
        /\ call.store.total > 0 => call.store.currentImageIndex \in 0..(call.store.total - 1)
        /\ (\/ call.store.currentImageIndex # call.before.currentImageIndex
            \/ call.action \in {"startGame", "endGame"})
                => call.store.currentPixelationLevel = 1
        /\ call.store.gameMode = "playing" => (call.store.hasCategory /\ call.store.total > 0)

\* C40: once addImageToCategory has failed, the image is not in the store's
\* images, its id is not in the category's imageIds in memory, and the
\* persisted category lists no image id without a persisted image record.
C40_FailedAddLeavesNoTrace ==
    (call.called /\ call.fn = "handleFileUpload") =>
        \A id \in UploadedIds :
            call.adds[id].pc = "failed" =>
                /\ id \notin call.mem.images
                /\ id \notin call.mem.imageIds
                /\ call.db.imageIds \subseteq call.db.images

\* C37: when uploadImages returns, every image of successful has been
\* persisted completely; the reload never reads a partially written image;
\* and, no write having been rejected, every image of successful is in the
\* store's images once handleFileUpload has finished.
C37_UploadReturnsAfterPersisting ==
    (call.called /\ call.fn = "handleFileUpload") =>
        /\ call.pc = "returned" => call.atReturn = call.successful
        /\ ~ call.partialRead
        /\ (call.pc = "finished" /\ call.faults = 0) => call.successful \subseteq call.mem.images

\* the image record had its four levels, each with bytes
HadFourLevels(db, id) ==
    id \in db.images /\ \A k \in requiredLevels : Len(db.blobs[id][k]) > 0

\* C33: after importData(exportData()) the persisted images are exactly the
\* images that had four non-empty levels before, each with the same bytes in
\* its four levels, and every imageId of the restored category is the id of
\* a restored image.
C33_ExportImportRoundTrip ==
    (call.called /\ call.fn = "exportData" /\ call.pcx = "imported") =>
        /\ call.db.images = {id \in Images : HadFourLevels(call.before, id)}
        /\ \A id \in call.db.images : call.db.blobs[id] = call.before.blobs[id]
        /\ call.db.imageIds \subseteq call.db.images

\* C31: in every reachable state of the settings the three pixelation block
\* sizes are integers in 4..128 and level1 >= level2 >= level3.
C31_BlockSizesInRangeAndDecreasing ==
    (call.called /\ call.fn = "useSettingsStore") =>
        /\ \A key \in PixelationKeys : ValidLevel(call.settings[key])
        /\ AtLeast(call.settings.pixelationLevel1, call.settings.pixelationLevel2)
        /\ AtLeast(call.settings.pixelationLevel2, call.settings.pixelationLevel3)

====
